---------------------------- MODULE Spec2Model ----------------------------
(***************************************************************************)
(* Chiller temperature logging app: the QR identity codec (src/utils/qr.ts)*)
(* the numeric keypad (src/components/TempKeypad.tsx) and the add-reading  *)
(* form with its automatic status classification (app/(app)/logs/add.tsx). *)
(*                                                                         *)
(* A JavaScript string is modelled as the sequence of its UTF-16 code      *)
(* units (naturals below 65536).  Str(<<"a", "b">>) writes such a string   *)
(* from its printable ASCII characters.                                    *)
(***************************************************************************)
EXTENDS Integers, Sequences, FiniteSets, TLC

\* ------------------------------------------------------------------------
\* Strings

\* The printable ASCII characters U+0020..U+005F in code order.
AsciiLow ==
  <<" ", "!", "\"", "#", "$", "%", "&", "'", "(", ")", "*", "+", ",", "-", ".", "/",
    "0", "1", "2", "3", "4", "5", "6", "7", "8", "9", ":", ";", "<", "=", ">", "?",
    "@", "A", "B", "C", "D", "E", "F", "G", "H", "I", "J", "K", "L", "M", "N", "O",
    "P", "Q", "R", "S", "T", "U", "V", "W", "X", "Y", "Z", "[", "\\", "]", "^", "_">>

\* The printable ASCII characters U+0061..U+007E in code order.
AsciiHigh ==
  <<"a", "b", "c", "d", "e", "f", "g", "h", "i", "j", "k", "l", "m", "n", "o",
    "p", "q", "r", "s", "t", "u", "v", "w", "x", "y", "z", "{", "|", "}", "~">>

AsciiChars ==
  {AsciiLow[i] : i \in 1..Len(AsciiLow)} \cup {AsciiHigh[i] : i \in 1..Len(AsciiHigh)}

OrdTable ==
  [c \in AsciiChars |->
     IF \E i \in 1..Len(AsciiLow) : AsciiLow[i] = c
     THEN 31 + (CHOOSE i \in 1..Len(AsciiLow) : AsciiLow[i] = c)
     ELSE 96 + (CHOOSE i \in 1..Len(AsciiHigh) : AsciiHigh[i] = c)]

\* Code unit of a printable ASCII character.
Ord(c) == OrdTable[c]

\* The string whose characters are cs.
Str(cs) == [i \in 1..Len(cs) |-> Ord(cs[i])]

\* All strings over alphabet A of length at most n.
RECURSIVE StringsUpTo(_, _)
StringsUpTo(A, n) ==
  IF n = 0 THEN {<<>>}
  ELSE LET shorter == StringsUpTo(A, n - 1)
       IN  shorter \cup {Append(s, c) : s \in shorter, c \in A}

\* String.prototype.slice(from) with a 0-based, in-range index.
SliceFrom(s, from) == SubSeq(s, from + 1, Len(s))

\* String.prototype.startsWith
StartsWith(s, p) == Len(s) >= Len(p) /\ SubSeq(s, 1, Len(p)) = p

\* ECMAScript WhiteSpace and LineTerminator code units, stripped by trim().
IsWhiteSpace(c) ==
  \/ c \in 9..13
  \/ c \in {32, 160, 5760, 8232, 8233, 8239, 8287, 12288, 65279}
  \/ c \in 8192..8202

RECURSIVE TrimStart(_)
TrimStart(s) ==
  IF s # <<>> /\ IsWhiteSpace(Head(s)) THEN TrimStart(Tail(s)) ELSE s

RECURSIVE TrimEnd(_)
TrimEnd(s) ==
  IF s # <<>> /\ IsWhiteSpace(s[Len(s)]) THEN TrimEnd(SubSeq(s, 1, Len(s) - 1)) ELSE s

\* String.prototype.trim
Trim(s) == TrimEnd(TrimStart(s))

IsDigit(c) == c \in Ord("0")..Ord("9")
IsAlpha(c) == c \in Ord("a")..Ord("z") \/ c \in Ord("A")..Ord("Z")

\* ------------------------------------------------------------------------
\* Results of calls that may return a string, return null or throw.

Value(s)  == [kind |-> "value", val |-> s]
Null      == [kind |-> "null", val |-> <<>>]
Thrown(e) == [kind |-> "throw", val |-> e]
Unset     == [kind |-> "unset", val |-> <<>>]

\* ------------------------------------------------------------------------
\* encodeURIComponent / decodeURIComponent (ECMAScript Encode and Decode)

IsHighSurrogate(c) == c \in 55296..56319
IsLowSurrogate(c)  == c \in 56320..57343

\* uriUnescaped: letters, digits and the marks - _ . ! ~ * ( ) and apostrophe
IsUriUnescaped(c) ==
  \/ IsAlpha(c) \/ IsDigit(c)
  \/ c \in {Ord("-"), Ord("_"), Ord("."), Ord("!"), Ord("~"), Ord("*"), Ord("'"),
            Ord("("), Ord(")")}

\* UTF-8 octets of a code point.
Utf8(cp) ==
  IF cp < 128 THEN <<cp>>
  ELSE IF cp < 2048 THEN <<192 + (cp \div 64), 128 + (cp % 64)>>
  ELSE IF cp < 65536 THEN
    <<224 + (cp \div 4096), 128 + ((cp \div 64) % 64), 128 + (cp % 64)>>
  ELSE
    <<240 + (cp \div 262144), 128 + ((cp \div 4096) % 64),
      128 + ((cp \div 64) % 64), 128 + (cp % 64)>>

HexDigits == Str(<<"0", "1", "2", "3", "4", "5", "6", "7", "8", "9",
                   "A", "B", "C", "D", "E", "F">>)

\* "%XX", upper-case hexadecimal.
PercentOctet(b) == <<Ord("%"), HexDigits[(b \div 16) + 1], HexDigits[(b % 16) + 1]>>

RECURSIVE PercentOctets(_)
PercentOctets(bs) ==
  IF bs = <<>> THEN <<>> ELSE PercentOctet(Head(bs)) \o PercentOctets(Tail(bs))

\* Encode(string, uriUnescaped) from index k (1-based), acc the result so far.
RECURSIVE EncodeFrom(_, _, _)
EncodeFrom(s, k, acc) ==
  IF k > Len(s) THEN Value(acc)
  ELSE LET c == s[k] IN
    IF IsUriUnescaped(c) THEN EncodeFrom(s, k + 1, Append(acc, c))
    ELSE IF IsLowSurrogate(c) THEN Thrown("URIError")
    ELSE IF IsHighSurrogate(c) THEN
      IF k + 1 <= Len(s) /\ IsLowSurrogate(s[k + 1])
      THEN LET cp == 65536 + (c - 55296) * 1024 + (s[k + 1] - 56320)
           IN  EncodeFrom(s, k + 2, acc \o PercentOctets(Utf8(cp)))
      ELSE Thrown("URIError")
    ELSE EncodeFrom(s, k + 1, acc \o PercentOctets(Utf8(c)))

encodeURIComponent(s) == EncodeFrom(s, 1, <<>>)

IsHexDigit(c) ==
  IsDigit(c) \/ c \in Ord("A")..Ord("F") \/ c \in Ord("a")..Ord("f")

HexValue(c) ==
  IF IsDigit(c) THEN c - Ord("0")
  ELSE IF c \in Ord("A")..Ord("F") THEN c - Ord("A") + 10
  ELSE c - Ord("a") + 10

\* s holds "%XX" with two hexadecimal digits at index k.
IsEscapeAt(s, k) ==
  /\ k + 2 <= Len(s)
  /\ s[k] = Ord("%")
  /\ IsHexDigit(s[k + 1])
  /\ IsHexDigit(s[k + 2])

OctetAt(s, k) == HexValue(s[k + 1]) * 16 + HexValue(s[k + 2])

\* Number of leading 1 bits of an octet.
LeadingOnes(b) ==
  IF b < 128 THEN 0
  ELSE IF b < 192 THEN 1
  ELSE IF b < 224 THEN 2
  ELSE IF b < 240 THEN 3
  ELSE IF b < 248 THEN 4
  ELSE 5

IsContinuation(b) == b \in 128..191

\* The code point of a well-formed UTF-8 sequence of n >= 2 octets, or -1.
Utf8CodePoint(bs) ==
  LET n == Len(bs)
      cp == IF n = 2 THEN (bs[1] - 192) * 64 + (bs[2] - 128)
            ELSE IF n = 3 THEN
              (bs[1] - 224) * 4096 + (bs[2] - 128) * 64 + (bs[3] - 128)
            ELSE (bs[1] - 240) * 262144 + (bs[2] - 128) * 4096
                 + (bs[3] - 128) * 64 + (bs[4] - 128)
      least == IF n = 2 THEN 128 ELSE IF n = 3 THEN 2048 ELSE 65536
  IN  IF /\ \A i \in 2..n : IsContinuation(bs[i])
         /\ cp >= least
         /\ cp <= 1114111
         /\ cp \notin 55296..57343
      THEN cp ELSE -1

\* UTF16EncodeCodePoint
Utf16(cp) ==
  IF cp < 65536 THEN <<cp>>
  ELSE <<55296 + ((cp - 65536) \div 1024), 56320 + ((cp - 65536) % 1024)>>

\* Decode(string, empty reserved set) from index k (1-based).
RECURSIVE DecodeFrom(_, _, _)
DecodeFrom(s, k, acc) ==
  IF k > Len(s) THEN Value(acc)
  ELSE IF s[k] # Ord("%") THEN DecodeFrom(s, k + 1, Append(acc, s[k]))
  ELSE IF ~IsEscapeAt(s, k) THEN Thrown("URIError")
  ELSE LET b == OctetAt(s, k)
           n == LeadingOnes(b)
       IN
    IF n = 0 THEN DecodeFrom(s, k + 3, Append(acc, b))
    ELSE IF n = 1 \/ n > 4 THEN Thrown("URIError")
    ELSE IF k + 3 * n - 1 > Len(s) THEN Thrown("URIError")
    ELSE IF \E j \in 1..(n - 1) : ~IsEscapeAt(s, k + 3 * j) THEN Thrown("URIError")
    ELSE LET bs == [j \in 1..n |-> OctetAt(s, k + 3 * (j - 1))]
             cp == Utf8CodePoint(bs)
         IN  IF cp < 0 THEN Thrown("URIError")
             ELSE DecodeFrom(s, k + 3 * n, acc \o Utf16(cp))

decodeURIComponent(s) == DecodeFrom(s, 1, <<>>)

\* ------------------------------------------------------------------------
\* src/utils/qr.ts

QR_PREFIX ==
  Str(<<"t", "e", "m", "p", "-", "m", "o", "n", "i", "t", "o", "r", ":", "/", "/",
        "c", "h", "i", "l", "l", "e", "r", "/">>)

\* The payload of a version that appends the identifier as it is.
buildChillerQrValueUnencoded(chillerId) == Value(QR_PREFIX \o chillerId)

\* buildChillerQrValue(chillerId): the payload, or the URIError of
\* encodeURIComponent.
buildChillerQrValue(chillerId) ==
  LET enc == encodeURIComponent(chillerId)
  IN  IF enc.kind = "throw" THEN enc ELSE Value(QR_PREFIX \o enc.val)

\* app/(app)/qr/[id].tsx: the buildChillerQrValue of the QR detail screen.
QrDetail_buildChillerQrValue(chillerId) == Value(QR_PREFIX \o chillerId)

\* The fallback pattern with a shorter least length.
IsRawIdShort(s) ==
  /\ Len(s) >= 5
  /\ \A i \in 1..Len(s) :
       IsAlpha(s[i]) \/ IsDigit(s[i]) \/ s[i] = Ord("_") \/ s[i] = Ord("-")

\* /^[a-zA-Z0-9_-]{10,}$/.test(s)
IsRawId(s) ==
  /\ Len(s) >= 10
  /\ \A i \in 1..Len(s) :
       IsAlpha(s[i]) \/ IsDigit(s[i]) \/ s[i] = Ord("_") \/ s[i] = Ord("-")

\* parseChillerIdFromQr holding the text after the prefix to the fallback
\* pattern as well.
parseChillerIdFromQrRawOnly(value) ==
  LET s == Trim(value) IN
  IF StartsWith(s, QR_PREFIX) THEN
    LET id  == SliceFrom(s, Len(QR_PREFIX))
        dec == decodeURIComponent(id)
    IN  IF dec.kind = "throw" THEN dec
        ELSE IF IsRawId(Trim(dec.val)) THEN Value(Trim(dec.val))
        ELSE Null
  ELSE IF IsRawId(s) THEN Value(s)
  ELSE Null

\* parseChillerIdFromQr(value): an identifier, null, or the URIError that
\* decodeURIComponent throws and the function does not catch.
parseChillerIdFromQr(value) ==
  LET s == Trim(value) IN
  IF StartsWith(s, QR_PREFIX) THEN
    LET id  == SliceFrom(s, Len(QR_PREFIX))
        dec == decodeURIComponent(id)
    IN  IF dec.kind = "throw" THEN dec
        ELSE IF Trim(dec.val) = <<>> THEN Null
        ELSE Value(Trim(dec.val))
  ELSE IF IsRawId(s) THEN Value(s)
  ELSE Null

\* ------------------------------------------------------------------------
\* src/components/TempKeypad.tsx

Modes == {"signed-decimal", "unsigned-decimal"}

\* String.prototype.replace(/,/g, ".")
CommasToDots(s) == [i \in 1..Len(s) |-> IF s[i] = Ord(",") THEN Ord(".") ELSE s[i]]

\* String.prototype.replace(/[^0-9\-.]/g, "")
KeepNumeric(s) ==
  SelectSeq(s, LAMBDA c : IsDigit(c) \/ c = Ord("-") \/ c = Ord("."))

\* String.prototype.replace(/-/g, "")
DropMinus(s) == SelectSeq(s, LAMBDA c : c # Ord("-"))

\* String.prototype.split(sep) for a one-character separator.
RECURSIVE Split(_, _)
Split(s, sep) ==
  IF \A i \in 1..Len(s) : s[i] # sep THEN <<s>>
  ELSE LET i == CHOOSE j \in 1..Len(s) : s[j] = sep /\ \A h \in 1..(j - 1) : s[h] # sep
       IN  <<SubSeq(s, 1, i - 1)>> \o Split(SubSeq(s, i + 1, Len(s)), sep)

\* Array.prototype.join("")
RECURSIVE Join(_)
Join(parts) == IF parts = <<>> THEN <<>> ELSE Head(parts) \o Join(Tail(parts))

\* The collapse of the dots applied by a version that removes one surplus dot,
\* the second, per call.
CollapseDotsFirstTwo(s) ==
  LET parts == Split(s, Ord(".")) IN
  IF Len(parts) > 2
  THEN parts[1] \o <<Ord(".")>> \o parts[2] \o parts[3]
       \o Join([i \in 1..(Len(parts) - 3) |-> <<Ord(".")>> \o parts[i + 3]])
  ELSE s

\* The collapse of the dots applied by a version that drops what follows the
\* second dot.
CollapseDotsTruncating(s) ==
  LET parts == Split(s, Ord(".")) IN
  IF Len(parts) > 2 THEN parts[1] \o <<Ord(".")>> \o parts[2] ELSE s

\* normalizeInput, lines 26-28: keep the first dot only.
CollapseDots(s) ==
  LET parts == Split(s, Ord(".")) IN
  IF Len(parts) > 2 THEN parts[1] \o <<Ord(".")>> \o Join(Tail(parts)) ELSE s

\* The minus handling of a version that moves any minus to the front.
LeadingMinusMoved(s, mode) ==
  LET allowMinus == mode = "signed-decimal"
      stripped   == DropMinus(s)
  IN  IF allowMinus /\ stripped # s THEN <<Ord("-")>> \o stripped ELSE stripped

\* The minus handling of a version that keeps a leading minus in either mode.
LeadingMinusAnyMode(s, mode) ==
  IF StartsWith(s, <<Ord("-")>>) THEN <<Ord("-")>> \o DropMinus(s) ELSE DropMinus(s)

\* normalizeInput, lines 19-24: a minus only leading and only if allowed.
LeadingMinus(s, mode) ==
  LET allowMinus  == mode = "signed-decimal"
      startsMinus == StartsWith(s, <<Ord("-")>>)
      stripped    == DropMinus(s)
  IN  IF allowMinus /\ startsMinus THEN <<Ord("-")>> \o stripped ELSE stripped

normalizeInput(raw, mode) ==
  CollapseDots(LeadingMinus(KeepNumeric(CommasToDots(raw)), mode))

\* The key labels: a digit, ".", U+00B1 PLUS-MINUS SIGN, and U+232B ERASE TO
\* THE LEFT of the action row.
PlusMinus == <<177>>
Dot       == <<Ord(".")>>

BackspaceKey == <<9003>>

NoKey == <<>>

\* appendChar with a sign key that only ever adds a minus.
appendCharSignAdds(current, ch, mode) ==
  IF ch = PlusMinus THEN
    IF mode # "signed-decimal" THEN current
    ELSE IF current = <<>> THEN <<Ord("-")>>
    ELSE <<Ord("-")>> \o current
  ELSE IF ch = Dot THEN
    IF current = <<>> THEN Str(<<"0", ".">>)
    ELSE IF \E i \in 1..Len(current) : current[i] = Ord(".") THEN current
    ELSE current \o Dot
  ELSE IF Len(ch) = 1 /\ IsDigit(ch[1]) THEN current \o ch
  ELSE current

\* appendChar with a point key that appends a point to any non-empty buffer.
appendCharDotAppends(current, ch, mode) ==
  IF ch = PlusMinus THEN
    IF mode # "signed-decimal" THEN current
    ELSE IF current = <<>> THEN <<Ord("-")>>
    ELSE IF StartsWith(current, <<Ord("-")>>) THEN SliceFrom(current, 1)
    ELSE <<Ord("-")>> \o current
  ELSE IF ch = Dot THEN
    IF current = <<>> THEN Str(<<"0", ".">>) ELSE current \o Dot
  ELSE IF Len(ch) = 1 /\ IsDigit(ch[1]) THEN current \o ch
  ELSE current

appendChar(current, ch, mode) ==
  IF ch = PlusMinus THEN
    IF mode # "signed-decimal" THEN current
    ELSE IF current = <<>> THEN <<Ord("-")>>
    ELSE IF StartsWith(current, <<Ord("-")>>) THEN SliceFrom(current, 1)
    ELSE <<Ord("-")>> \o current
  ELSE IF ch = Dot THEN
    IF current = <<>> THEN Str(<<"0", ".">>)
    ELSE IF \E i \in 1..Len(current) : current[i] = Ord(".") THEN current
    ELSE current \o Dot
  ELSE IF Len(ch) = 1 /\ IsDigit(ch[1]) THEN current \o ch
  ELSE current

\* backspace removing the first character.
backspaceFirst(current) ==
  IF current = <<>> THEN <<>> ELSE Tail(current)

backspace(current) ==
  IF current = <<>> THEN <<>> ELSE SubSeq(current, 1, Len(current) - 1)

\* The fourth key row: the sign key exists in signed mode only.
KeyLabels(mode, digits) ==
  {<<d>> : d \in digits} \cup {Dot}
  \cup (IF mode = "signed-decimal" THEN {PlusMinus} ELSE {})

\* What a key press hands to onChange.
KeyPressed(value, k, mode) == normalizeInput(appendChar(value, k, mode), mode)

\* What the backspace key hands to onChange.
BackspacePressed(value, mode) == normalizeInput(backspace(value), mode)

\* ------------------------------------------------------------------------
\* Numbers.  A finite number is the decimal m / 10^f.  The strings the model
\* feeds to Number() hold a handful of significant digits, for which the
\* comparison of the doubles agrees with the comparison of the decimals.

Num(m, f) == [kind |-> "num", m |-> m, f |-> f]
NumNull   == [kind |-> "null", m |-> 0, f |-> 0]
NaN       == [kind |-> "nan", m |-> 0, f |-> 0]
Infinite  == [kind |-> "inf", m |-> 0, f |-> 0]

RECURSIVE Pow10(_)
Pow10(n) == IF n = 0 THEN 1 ELSE 10 * Pow10(n - 1)

\* a < b on finite numbers.
Less(a, b) == a.m * Pow10(b.f) < b.m * Pow10(a.f)

RECURSIVE DigitsValue(_)
DigitsValue(ds) ==
  IF ds = <<>> THEN 0
  ELSE 10 * DigitsValue(SubSeq(ds, 1, Len(ds) - 1)) + (ds[Len(ds)] - Ord("0"))

AllDigits(s) == \A i \in 1..Len(s) : IsDigit(s[i])

\* s without its leading "0" digits.
RECURSIVE StripZeros(_)
StripZeros(s) ==
  IF s # <<>> /\ Head(s) = Ord("0") THEN StripZeros(Tail(s)) ELSE s

\* The leading digits of 2^1024 - 2^970, the least decimal that rounds to
\* Infinity: 1.7976931348623158e308.
OverflowDigits ==
  Str(<<"1", "7", "9", "7", "6", "9", "3", "1", "3", "4", "8", "6", "2", "3", "1", "5", "8">>)

\* The exponent of 10 of the leading digit of OverflowDigits.
OverflowExponent == 308

\* a < b for digit strings of one length.
RECURSIVE DigitsLess(_, _)
DigitsLess(a, b) ==
  IF a = <<>> THEN FALSE
  ELSE IF Head(a) # Head(b) THEN Head(a) < Head(b)
  ELSE DigitsLess(Tail(a), Tail(b))

\* Whether the decimal with the significant digits sig (no leading zero, at
\* most as many as OverflowDigits), the first of them of weight 10^top,
\* rounds to Infinity.
Overflows(sig, top) ==
  /\ sig # <<>>
  /\ \/ top > OverflowExponent
     \/ /\ top = OverflowExponent
        /\ LET padded == sig \o [i \in 1..(Len(OverflowDigits) - Len(sig)) |-> Ord("0")]
           IN  ~DigitsLess(padded, OverflowDigits)

\* StrDecimalLiteral without its sign: digits with at most one point and an
\* optional exponent part.  The results are NaN, Infinite, or the finite
\* number m * 10^(-f).
UnsignedDecimal(rest, negative) ==
  LET hasExp   == \E i \in 1..Len(rest) : rest[i] \in {Ord("e"), Ord("E")}
      epos     == IF hasExp
                  THEN CHOOSE i \in 1..Len(rest) :
                         /\ rest[i] \in {Ord("e"), Ord("E")}
                         /\ \A j \in 1..(i - 1) : rest[j] \notin {Ord("e"), Ord("E")}
                  ELSE Len(rest) + 1
      mantissa == SubSeq(rest, 1, epos - 1)
      exppart  == SubSeq(rest, epos + 1, Len(rest))
      expsign  == exppart # <<>> /\ exppart[1] \in {Ord("-"), Ord("+")}
      expdigs  == IF expsign THEN Tail(exppart) ELSE exppart
      expabs   == DigitsValue(expdigs)
      exp      == IF ~hasExp THEN 0
                  ELSE IF exppart[1] = Ord("-") THEN 0 - expabs ELSE expabs
      parts    == Split(mantissa, Ord("."))
      int      == parts[1]
      frac     == IF Len(parts) = 2 THEN parts[2] ELSE <<>>
      mant     == DigitsValue(int \o frac)
      sig      == StripZeros(int \o frac)
  IN  IF /\ Len(parts) <= 2
         /\ AllDigits(int) /\ AllDigits(frac)
         /\ Len(int) + Len(frac) >= 1
         /\ hasExp => (expdigs # <<>> /\ AllDigits(expdigs))
      THEN IF Overflows(sig, Len(sig) - 1 + exp - Len(frac))
           THEN Infinite
           ELSE Num(IF negative THEN 0 - mant ELSE mant, Len(frac) - exp)
      ELSE NaN

\* Number(s) for a string s: StringToNumber on StrDecimalLiteral (the model's
\* strings hold no 0x, 0o or 0b prefix, and exponents of at most three
\* digits).
Number(s) ==
  LET t        == Trim(s)
      signed   == t # <<>> /\ t[1] \in {Ord("-"), Ord("+")}
      negative == t # <<>> /\ t[1] = Ord("-")
      rest     == IF signed THEN Tail(t) ELSE t
  IN  IF t = <<>> THEN Num(0, 0)
      ELSE IF rest = Str(<<"I", "n", "f", "i", "n", "i", "t", "y">>) THEN Infinite
      ELSE UnsignedDecimal(rest, negative)

\* String.prototype.replace(",", "."): the first comma only.
ReplaceFirstComma(s) ==
  IF \A i \in 1..Len(s) : s[i] # Ord(",") THEN s
  ELSE LET i == CHOOSE j \in 1..Len(s) :
                  s[j] = Ord(",") /\ \A h \in 1..(j - 1) : s[h] # Ord(",")
       IN  [j \in 1..Len(s) |-> IF j = i THEN Ord(".") ELSE s[j]]

\* ------------------------------------------------------------------------
\* app/(app)/logs/add.tsx

\* parseNumber without the trim.
parseNumberUntrimmed(val) ==
  IF val = <<>> THEN NumNull
  ELSE IF val \in {Str(<<"-">>), Str(<<".">>), Str(<<"-", ".">>)} THEN NaN
  ELSE LET n == Number(ReplaceFirstComma(val))
       IN  IF n.kind # "num" THEN NaN ELSE n

\* parseNumber refusing a string that ends with a point.
parseNumberNoTrailingDot(val) ==
  LET t == Trim(val) IN
  IF t = <<>> THEN NumNull
  ELSE IF t[Len(t)] = Ord(".") THEN NaN
  ELSE LET n == Number(ReplaceFirstComma(t))
       IN  IF n.kind # "num" THEN NaN ELSE n

\* parseNumber(val): NumNull for null, NaN for "nan", else the number.
parseNumber(val) ==
  LET t == Trim(val) IN
  IF t = <<>> THEN NumNull
  ELSE IF t \in {Str(<<"-">>), Str(<<".">>), Str(<<"-", ".">>)} THEN NaN
  ELSE LET n == Number(ReplaceFirstComma(t))
       IN  IF n.kind # "num" THEN NaN ELSE n

Statuses == {"ok", "warning", "damaged"}

\* photoUri === null
NoPhoto == "null"

\* No alert was shown.
NoAlert == [title |-> "", message |-> ""]

\* The chiller document has no lastReading written by this screen.
NoReading == [written |-> FALSE]

Alert(title, message) == [title |-> title, message |-> message]

\* onSave, lines 249-265, with one message for an empty temperature and
\* another for a malformed one.
ValidationDistinct(temp, hum, st, nt, photo) ==
  LET tv == parseNumber(temp)
      hv == parseNumber(hum)
  IN  IF tv = NumNull THEN Alert("Validation", "Temperature is required.")
      ELSE IF tv = NaN THEN Alert("Validation", "Temperature must be a number.")
      ELSE IF hv = NaN THEN Alert("Validation", "Humidity must be a number.")
      ELSE IF st \in {"warning", "damaged"} /\ Trim(nt) = <<>>
      THEN Alert("Validation", "Note is required for Warning/Damaged.")
      ELSE IF st = "damaged" /\ photo = NoPhoto
      THEN Alert("Validation", "Photo is required when status is Damaged.")
      ELSE NoAlert

\* onSave, lines 249-265: the alert of the first failed validation, NoAlert
\* if the reading passes.
Validation(temp, hum, st, nt, photo) ==
  LET tv == parseNumber(temp)
      hv == parseNumber(hum)
  IN  IF tv = NumNull \/ tv = NaN
      THEN Alert("Validation", "Temperature is required and must be a number.")
      ELSE IF hv = NaN THEN Alert("Validation", "Humidity must be a number.")
      ELSE IF st \in {"warning", "damaged"} /\ Trim(nt) = <<>>
      THEN Alert("Validation", "Note is required for Warning/Damaged.")
      ELSE IF st = "damaged" /\ photo = NoPhoto
      THEN Alert("Validation", "Photo is required when status is Damaged.")
      ELSE NoAlert

\* The messages of the alert of the catch block: e.message, or the default.
SaveErrors == {"e.message", "Failed to save log"}

\* The messages of the alert of a failed upload.
UploadErrors == {"e.message", "Could not upload photo."}

\* The document onSave adds to tempLogs, and the lastReading it writes.
Reading(sv) ==
  [written |-> TRUE, tempC |-> sv.t, humidity |-> sv.h, status |-> sv.status,
   note |-> Trim(sv.note), photoUrl |-> sv.photoUrl]

\* s without its i-th element.
RemoveAt(s, i) == SubSeq(s, 1, i - 1) \o SubSeq(s, i + 1, Len(s))

NoChiller == [loaded |-> FALSE, minTemp |-> NumNull, maxTemp |-> NumNull]
Chiller(min, max) == [loaded |-> TRUE, minTemp |-> min, maxTemp |-> max]

\* The effect body of a version that also skips the recomputation when the
\* status is "warning".
AutoStatusKeepWarning(c, temp, st) ==
  IF ~c.loaded THEN st
  ELSE LET t == parseNumber(temp) IN
    IF t.kind # "num" THEN st
    ELSE IF st # "ok" THEN st
    ELSE IF c.minTemp.kind = "null" /\ c.maxTemp.kind = "null" THEN "ok"
    ELSE IF \/ c.minTemp.kind # "null" /\ Less(t, c.minTemp)
            \/ c.maxTemp.kind # "null" /\ Less(c.maxTemp, t)
         THEN "warning" ELSE "ok"

\* The effect body of a version without the "damaged" guard.
AutoStatusNoGuard(c, temp, st) ==
  IF ~c.loaded THEN st
  ELSE LET t == parseNumber(temp) IN
    IF t.kind # "num" THEN st
    ELSE IF c.minTemp.kind = "null" /\ c.maxTemp.kind = "null" THEN "ok"
    ELSE IF \/ c.minTemp.kind # "null" /\ Less(t, c.minTemp)
            \/ c.maxTemp.kind # "null" /\ Less(c.maxTemp, t)
         THEN "warning" ELSE "ok"

\* The effect body of a version that compares with <= and >=.
AutoStatusInclusive(c, temp, st) ==
  IF ~c.loaded THEN st
  ELSE LET t == parseNumber(temp) IN
    IF t.kind # "num" THEN st
    ELSE IF st = "damaged" THEN st
    ELSE IF c.minTemp.kind = "null" /\ c.maxTemp.kind = "null" THEN "ok"
    ELSE IF \/ c.minTemp.kind # "null" /\ ~Less(c.minTemp, t)
            \/ c.maxTemp.kind # "null" /\ ~Less(t, c.maxTemp)
         THEN "warning" ELSE "ok"

\* The effect body of a version that resets the status when the input does
\* not parse.
AutoStatusResetOnInvalid(c, temp, st) ==
  IF ~c.loaded THEN st
  ELSE LET t == parseNumber(temp) IN
    IF st = "damaged" THEN st
    ELSE IF t.kind # "num" THEN "ok"
    ELSE IF c.minTemp.kind = "null" /\ c.maxTemp.kind = "null" THEN "ok"
    ELSE IF \/ c.minTemp.kind # "null" /\ Less(t, c.minTemp)
            \/ c.maxTemp.kind # "null" /\ Less(c.maxTemp, t)
         THEN "warning" ELSE "ok"

\* The effect body of a version that escalates a reading far out of range.
AutoStatusEscalating(c, temp, st) ==
  IF ~c.loaded THEN st
  ELSE LET t == parseNumber(temp) IN
    IF t.kind # "num" THEN st
    ELSE IF st = "damaged" THEN st
    ELSE IF c.minTemp.kind = "null" /\ c.maxTemp.kind = "null" THEN "ok"
    ELSE IF c.maxTemp.kind # "null" /\ Less(Num(c.maxTemp.m * 2, c.maxTemp.f), t)
         THEN "damaged"
    ELSE IF \/ c.minTemp.kind # "null" /\ Less(t, c.minTemp)
            \/ c.maxTemp.kind # "null" /\ Less(c.maxTemp, t)
         THEN "warning" ELSE "ok"

\* The body of the auto-warning effect: the status it leaves, given the
\* chiller, the temperature input and the status of the render it runs in.
AutoStatus(c, temp, st) ==
  IF ~c.loaded THEN st
  ELSE LET t == parseNumber(temp) IN
    IF t.kind # "num" THEN st
    ELSE IF st = "damaged" THEN st
    ELSE IF c.minTemp.kind = "null" /\ c.maxTemp.kind = "null" THEN "ok"
    ELSE LET isLow  == c.minTemp.kind # "null" /\ Less(t, c.minTemp)
             isHigh == c.maxTemp.kind # "null" /\ Less(c.maxTemp, t)
         IN  IF isLow \/ isHigh THEN "warning" ELSE "ok"

\* ------------------------------------------------------------------------
\* app/(app)/chillers/[id].tsx

\* The decimal digits of a natural number.
RECURSIVE NatToDigits(_)
NatToDigits(n) ==
  IF n < 10 THEN <<Ord("0") + n>>
  ELSE NatToDigits(n \div 10) \o <<Ord("0") + (n % 10)>>

\* String(n) for a finite number m / 10^f of magnitude between 10^-6 and
\* 10^21, where Number::toString uses no exponent: sign, integer digits,
\* and the fraction without its trailing zeros.
RECURSIVE NumberToString(_)
NumberToString(n) ==
  IF n.m < 0 THEN <<Ord("-")>> \o NumberToString(Num(0 - n.m, n.f))
  ELSE IF n.f > 0 /\ n.m % 10 = 0 THEN NumberToString(Num(n.m \div 10, n.f - 1))
  ELSE IF n.f = 0 THEN NatToDigits(n.m)
  ELSE LET ds     == NatToDigits(n.m)
           padded == [i \in 1..(n.f + 1 - Len(ds)) |-> Ord("0")] \o ds
       IN  SubSeq(padded, 1, Len(padded) - n.f) \o <<Ord(".")>>
           \o SubSeq(padded, Len(padded) - n.f + 1, Len(padded))

\* x == null ? "" : String(x)
BoundText(x) == IF x = NumNull THEN <<>> ELSE NumberToString(x)

\* parseNumberOrNull without the Number.isFinite test.
parseNumberOrNullUnchecked(val) ==
  LET t == Trim(val) IN
  IF t = <<>> THEN NumNull ELSE Number(ReplaceFirstComma(t))

\* parseNumberOrNull(val): NumNull for null, NaN, or the number.
parseNumberOrNull(val) ==
  LET t == Trim(val) IN
  IF t = <<>> THEN NumNull
  ELSE LET n == Number(ReplaceFirstComma(t))
       IN  IF n.kind # "num" THEN NaN ELSE n

NoUser == "null"

\* min != null && max != null && min > max
MinAboveMax(min, max) == min # NumNull /\ max # NumNull /\ Less(max, min)

\* canSave, lines 301-313.
canSave(user, saving, branches, name, branchId, minTemp, maxTemp) ==
  LET min == parseNumberOrNull(minTemp)
      max == parseNumberOrNull(maxTemp)
  IN  /\ user # NoUser
      /\ ~saving
      /\ branches = "some"
      /\ Trim(name) # <<>>
      /\ branchId # <<>>
      /\ ~(min = NaN \/ max = NaN)
      /\ ~MinAboveMax(min, max)

\* onSave, lines 318-331: the alert of the first failed validation, NoAlert
\* if the chiller passes.
EditValidation(branches, name, branchId, minTemp, maxTemp) ==
  LET min == parseNumberOrNull(minTemp)
      max == parseNumberOrNull(maxTemp)
  IN  IF Trim(name) = <<>> THEN Alert("Validation", "Chiller name is required.")
      ELSE IF branchId = <<>> THEN Alert("Validation", "Please select a branch.")
      ELSE IF branches # "some" THEN Alert("Branches required", "Create a branch first.")
      ELSE IF min = NaN \/ max = NaN
      THEN Alert("Validation", "Min/Max temperature must be a number.")
      ELSE IF MinAboveMax(min, max)
      THEN Alert("Validation", "Min temperature cannot be greater than Max temperature.")
      ELSE NoAlert

\* The chiller documents of the server: their name, branch, range and flag.
ChillerIds == {"c1", "c2"}

ServerDoc(id) ==
  IF id = "c1"
  THEN [name |-> Str(<<"n">>), branchId |-> Str(<<"b">>), minTemp |-> Num(2, 0),
        maxTemp |-> Num(5, 0), isActive |-> TRUE]
  ELSE [name |-> Str(<<"m">>), branchId |-> Str(<<"b">>), minTemp |-> Num(-5, 0),
        maxTemp |-> Num(25, 1), isActive |-> FALSE]

NoListener == [id |-> "none", uid |-> NoUser]

\* ownerId of the stored chillers.
ChillerOwner == "u1"

\* ------------------------------------------------------------------------
\* State

VARIABLES
  \* QR codec: one build-and-scan or one scan.
  qrStage,       \* "idle", "built", "roundtrip", "scanned"
  qrId,          \* the identifier given to buildChillerQrValue
  qrPayload,     \* the result of buildChillerQrValue, or the scanned text
  qrResult,      \* the result of parseChillerIdFromQr
  qrDetail,      \* the payload of the QR detail screen
  \* TempKeypad: the controlled component with its value and mode props.
  kpStage,       \* "seeded", "typed", "once", "twice", "appended", "erased"
  kpMode,
  kpValue,       \* the value prop
  kpOut,         \* the string last handed to onChange / returned by normalizeInput
  kpAgain,       \* normalizeInput, or backspace, applied to kpOut
  kpKey,         \* the label of the key last applied, NoKey before any
  \* AddLog screen.
  chiller,       \* the chiller state: NoChiller until the document is loaded
  screenLoading,
  inFlight,      \* number of getDoc calls of the load effect not yet settled
  closed,        \* router.back() was called: the screen is gone
  tempC,
  humidity,
  status,
  activeField,   \* "none", "temp", "humidity"
  manual,        \* history: the status chip last pressed, "none" before any press
  lastOp,        \* history: what the last step did: "none", "load" (a chiller
                 \* was set), "temp" (tempC changed), "chip", "save" (onSave
                 \* ran), "other"
  note,
  photoUri,      \* NoPhoto for null
  saving,
  photoUploading,
  saveAlert,     \* the alert last shown by onSave or uploadPhotoIfNeeded
  saveCount,     \* history: the calls of onSave that passed the validation
  saves,         \* the calls of onSave suspended at an await
  tempLogs,      \* the documents added to the tempLogs collection
  lastReading,   \* the lastReading field of the chiller document
  \* parseNumber applied to a string.
  pnStage,       \* "given", "parsed"
  pnInput,
  pnResult,
  \* ChillerEdit screen.
  edMounted,
  edChillerId,   \* the id route parameter: "new" or a chiller id
  edUser,        \* the uid of the user of the auth context, NoUser for null
  edPageLoading,
  edName,
  edBranchId,
  edBranches,    \* "loading", "none" (the list is empty), "some"
  edMin,
  edMax,
  edIsActive,
  edSaving,
  edWrites,      \* the addDoc and updateDoc calls of onSave not yet settled
  edDocs,        \* the chiller documents written by onSave
  edAlert,       \* the alert last shown by onSave
  edLoads,       \* the getDoc calls of the live effect not yet settled
  edListeners,   \* the snapshot listeners registered and not unsubscribed
  edApplied,     \* history: the listener whose snapshot last set the fields
  \* ScanQr screen.
  scPermission,  \* hasPermission: "null", "granted", "denied"
  scScanned,     \* the scanned state
  scRendered,    \* the scanned of the last render: onScan and the
                 \* onBarcodeScanned prop were made with it
  scAlerts,      \* the alerts of onScan that are open, oldest first
  scTimers,      \* the setTimeout callbacks not yet run
  scRoute,       \* the route router.replace was last called with, NoRoute before
  scLast,        \* history: the text and the outcome of the barcode event
                 \* handled last, and a tick that flips on each event
  \* AuthProvider.
  auCurrent,     \* auth.currentUser: a uid or NoUser
  auUser,        \* the user state
  auProfile,     \* the profile state: a profile or NoProfile
  auLoading,     \* the loading state
  auRuns,        \* the calls of refreshProfile and ensureProfile in flight:
                 \* the user each read, its caller and its position
  auEvents,      \* history: auth-state-change events delivered
  auCalls        \* history: calls made by the screens

qrVars   == <<qrStage, qrId, qrPayload, qrResult, qrDetail>>
kpVars   == <<kpStage, kpMode, kpValue, kpOut, kpAgain, kpKey>>
saveVars == <<note, photoUri, saving, photoUploading, saveAlert, saveCount, saves,
              tempLogs, lastReading>>
formVars == <<chiller, screenLoading, inFlight, closed, tempC, humidity, status,
              activeField, manual, lastOp, saveVars>>
pnVars   == <<pnStage, pnInput, pnResult>>
edVars   == <<edMounted, edChillerId, edUser, edPageLoading, edName, edBranchId,
              edBranches, edMin, edMax, edIsActive, edSaving, edWrites, edDocs,
              edAlert, edLoads, edListeners, edApplied>>
scVars   == <<scPermission, scScanned, scRendered, scAlerts, scTimers, scRoute, scLast>>
auVars   == <<auCurrent, auUser, auProfile, auLoading, auRuns, auEvents, auCalls>>
restVars == <<edVars, scVars, auVars>>
vars     == <<qrVars, kpVars, formVars, pnVars, restVars>>

\* ------------------------------------------------------------------------
\* Bounds

MaxIdLen    == 3   \* length of the identifiers given to buildChillerQrValue
MaxScanLen  == 3   \* length of a scanned text after its prefix
MaxRawLen   == 4   \* length of the raw strings seeding the keypad
MaxTyped    == 3   \* characters held by the two fields of the form together
MaxInFlight == 1   \* chiller loads in flight at once
MaxParseLen == 3   \* length of the strings given to parseNumber
MaxSaves    == 1   \* calls of onSave that pass the validation
MaxAlerts   == 2   \* alerts of onScan open at once
MaxSubmits  == 2   \* submits of the note field that pass the validation
MaxAuthEvents == 3 \* auth-state-change events
MaxAuthCalls  == 1 \* calls of refreshProfile and ensureProfile by the screens

\* a, "-", space, "/", "%", U+00E9, and the surrogate pair of U+1F600
IdAlphabet ==
  {Ord("a"), Ord("-"), Ord(" "), Ord("/"), Ord("%"), 233, 55357, 56832}

Identifiers == StringsUpTo(IdAlphabet, MaxIdLen)

ScanAlphabet ==
  {Ord("%"), Ord("2"), Ord("0"), Ord("C"), Ord("3"), Ord("A"), Ord("9"),
   Ord("z"), Ord(" "), Ord("~"), Ord("_")}

\* The prefix with one letter in upper case.
CasePrefix ==
  Str(<<"T", "e", "m", "p", "-", "m", "o", "n", "i", "t", "o", "r", ":", "/", "/",
        "c", "h", "i", "l", "l", "e", "r", "/">>)

\* Nine characters of the fallback pattern, and five.
TokenStem  == Str(<<"a", "b", "c", "D", "E", "F", "_", "-", "1">>)
ShortToken == Str(<<"a", "b", "c", "1", "2">>)

\* What a scanned text starts with: nothing, the prefix, the prefix after a
\* space, the prefix in another case, a bare token.
ScanPrefixes ==
  {<<>>, QR_PREFIX, <<Ord(" ")>> \o QR_PREFIX, CasePrefix, CasePrefix \o TokenStem,
   TokenStem, ShortToken}

ScanInputs ==
  {p \o b : p \in ScanPrefixes, b \in StringsUpTo(ScanAlphabet, MaxScanLen)}

RawAlphabet == {Ord("1"), Ord("2"), Ord("-"), Ord("."), Ord(","), Ord("x")}

\* The raw strings up to the bound, and the examples of the documentation.
RawInputs ==
  StringsUpTo(RawAlphabet, MaxRawLen)
  \cup {Str(<<"1", ".", "2", ".", "3">>), Str(<<"1", ",", "2", ".", "3", ".", "4">>)}

KeypadDigits == {Ord("1"), Ord("2")}

\* 3, 5, "-", ".", ",", e, space and U+0009 CHARACTER TABULATION
ParseAlphabet ==
  {Ord("3"), Ord("5"), Ord("-"), Ord("."), Ord(","), Ord("e"), Ord(" "), 9}

\* The strings up to the bound, and longer ones: a padded number, the
\* non-finite literals, numbers around the largest double, two commas.
ParseInputs ==
  StringsUpTo(ParseAlphabet, MaxParseLen)
  \cup {Str(<<" ", "-", "3", ",", "5", " ">>),
        Str(<<"I", "n", "f", "i", "n", "i", "t", "y">>),
        Str(<<"-", "I", "n", "f", "i", "n", "i", "t", "y">>),
        Str(<<"1", "e", "3", "0", "8">>), Str(<<"2", "e", "3", "0", "8">>),
        Str(<<"1", ".", "7", "9", "e", "+", "3", "0", "8">>),
        Str(<<"1", ".", "8", "e", "3", "0", "8">>),
        Str(<<"0", ".", "0", "5", "e", "3", "1", "0">>),
        Str(<<"5", "e", "-", "3", "2", "4">>),
        Str(<<"3", ",", "5", ",", "5">>)}

FormDigits == {Ord("2"), Ord("5")}

\* Buffers the keypad leaves in the temperature and the humidity field.
SaveTemps == {<<>>, Str(<<"-">>), Str(<<"2", ".", "5">>)}

SaveHumidities == {<<>>, Str(<<".">>)}

\* Texts of the note field: empty, a space, a letter.
Notes == {<<>>, Str(<<" ">>), Str(<<"n">>)}

\* The uri of a picked photo, and the download URL of an uploaded one.
PhotoUris == {"uri"}
PhotoUrl  == "url"

\* Texts of the two bound fields: keypad buffers, and String() of a stored
\* number.
EditBounds ==
  {<<>>, Str(<<"-">>), Str(<<".">>), Str(<<"2">>), Str(<<"5">>), Str(<<"-", "5">>),
   Str(<<"2", ".", "5">>), Str(<<"N", "a", "N">>),
   Str(<<"I", "n", "f", "i", "n", "i", "t", "y">>)}

EditNames == {<<>>, Str(<<" ">>), Str(<<"n">>)}

EditBranchIds == {<<>>, Str(<<"b">>)}

EditUsers == {"u1", "u2"}

\* Scanned texts: a deep link, a bare identifier, a deep link with a
\* malformed escape, a foreign QR code, and a deep link after a space.
ScanTexts ==
  {QR_PREFIX \o Str(<<"z">>), TokenStem \o Str(<<"z">>), QR_PREFIX \o Str(<<"%">>),
   Str(<<"z", "z">>), QR_PREFIX}

\* auth.currentUser: nobody, or one of two accounts.
AuthUsers == {NoUser, "u1", "u2"}

ScanTargets == {"/(app)/logs/add", "/(app)/logs/chiller"}

ChillerRanges ==
  {Chiller(NumNull, NumNull), Chiller(Num(2, 0), NumNull),
   Chiller(NumNull, Num(5, 0)), Chiller(Num(2, 0), Num(5, 0))}

\* ------------------------------------------------------------------------
\* QR codec

InitQr ==
  /\ qrStage = "idle"
  /\ qrId = <<>>
  /\ qrPayload = Unset
  /\ qrResult = Unset
  /\ qrDetail = Unset

\* A QR screen renders buildChillerQrValue(chillerId).
QrBuild ==
  /\ qrStage = "idle"
  /\ \E x \in Identifiers :
       /\ qrId' = x
       /\ qrPayload' = buildChillerQrValue(x)
  /\ qrStage' = "built"
  /\ UNCHANGED <<qrResult, qrDetail>>
  /\ UNCHANGED <<kpVars, formVars, pnVars, restVars>>

\* The rendered payload is scanned back.
QrScanBuilt ==
  /\ qrStage = "built"
  /\ qrPayload.kind = "value"
  /\ qrResult' = parseChillerIdFromQr(qrPayload.val)
  /\ qrStage' = "roundtrip"
  /\ UNCHANGED <<qrId, qrPayload, qrDetail>>
  /\ UNCHANGED <<kpVars, formVars, pnVars, restVars>>

\* Some text is scanned or pasted.
QrScan ==
  /\ qrStage = "idle"
  /\ \E v \in ScanInputs :
       /\ qrPayload' = Value(v)
       /\ qrResult' = parseChillerIdFromQr(v)
  /\ qrStage' = "scanned"
  /\ UNCHANGED <<qrId, qrDetail>>
  /\ UNCHANGED <<kpVars, formVars, pnVars, restVars>>

\* The QR detail screen of the same chiller renders, shares and copies its
\* own qrValue.
QrDetailBuild ==
  /\ qrStage = "built"
  /\ qrDetail' = QrDetail_buildChillerQrValue(qrId)
  /\ qrStage' = "both"
  /\ UNCHANGED <<qrId, qrPayload, qrResult>>
  /\ UNCHANGED <<kpVars, formVars, pnVars, restVars>>

NextQr == QrBuild \/ QrScanBuilt \/ QrScan \/ QrDetailBuild

\* ------------------------------------------------------------------------
\* TempKeypad

InitKeypad ==
  /\ kpStage = "seeded"
  /\ kpMode \in Modes
  /\ kpValue \in RawInputs
  /\ kpOut = Unset
  /\ kpAgain = Unset
  /\ kpKey = NoKey

IdleKeypad ==
  /\ kpStage = "seeded"
  /\ kpMode = "signed-decimal"
  /\ kpValue = <<>>
  /\ kpOut = Unset
  /\ kpAgain = Unset
  /\ kpKey = NoKey

\* A key of the grid is pressed: onChange(normalizeInput(appendChar(...))),
\* and the parent renders the keypad again with the new value.
KpPress(k) ==
  /\ kpStage \in {"seeded", "typed"}
  /\ k \in KeyLabels(kpMode, KeypadDigits)
  /\ LET next == KeyPressed(kpValue, k, kpMode) IN
       /\ Len(next) <= MaxRawLen + 1
       /\ kpOut' = Value(next)
       /\ kpValue' = next
  /\ kpStage' = "typed"
  /\ kpKey' = k
  /\ UNCHANGED <<kpMode, kpAgain>>
  /\ UNCHANGED <<qrVars, formVars, pnVars, restVars>>

\* The backspace key is pressed.
KpBackspace ==
  /\ kpStage \in {"seeded", "typed"}
  /\ LET next == BackspacePressed(kpValue, kpMode) IN
       /\ kpOut' = Value(next)
       /\ kpValue' = next
  /\ kpStage' = "typed"
  /\ kpKey' = BackspaceKey
  /\ UNCHANGED <<kpMode, kpAgain>>
  /\ UNCHANGED <<qrVars, formVars, pnVars, restVars>>

\* appendChar applied to the value and a key label.
KpAppend(ch) ==
  /\ kpStage = "seeded"
  /\ kpOut' = Value(appendChar(kpValue, ch, kpMode))
  /\ kpKey' = ch
  /\ kpStage' = "appended"
  /\ UNCHANGED <<kpMode, kpValue, kpAgain>>
  /\ UNCHANGED <<qrVars, formVars, pnVars, restVars>>

\* backspace applied to the result of appendChar.
KpErase ==
  /\ kpStage = "appended"
  /\ kpAgain' = Value(backspace(kpOut.val))
  /\ kpStage' = "erased"
  /\ UNCHANGED <<kpMode, kpValue, kpOut, kpKey>>
  /\ UNCHANGED <<qrVars, formVars, pnVars, restVars>>

\* normalizeInput applied to the raw value.
KpNormalize ==
  /\ kpStage = "seeded"
  /\ kpOut' = Value(normalizeInput(kpValue, kpMode))
  /\ kpStage' = "once"
  /\ UNCHANGED <<kpMode, kpValue, kpAgain, kpKey>>
  /\ UNCHANGED <<qrVars, formVars, pnVars, restVars>>

\* normalizeInput applied to its own result.
KpNormalizeAgain ==
  /\ kpStage = "once"
  /\ kpAgain' = Value(normalizeInput(kpOut.val, kpMode))
  /\ kpStage' = "twice"
  /\ UNCHANGED <<kpMode, kpValue, kpOut, kpKey>>
  /\ UNCHANGED <<qrVars, formVars, pnVars, restVars>>

\* The screen reads the field the keypad has filled: parseNumber(tempC).
KpParse ==
  /\ kpStage \in {"seeded", "typed"}
  /\ pnStage = "given"
  /\ pnInput' = kpValue
  /\ pnResult' = parseNumber(kpValue)
  /\ pnStage' = "parsed"
  /\ kpStage' = "read"
  /\ UNCHANGED <<kpMode, kpValue, kpOut, kpAgain, kpKey>>
  /\ UNCHANGED <<qrVars, formVars, restVars>>

\* The keypad of the temperature field, from the empty field on.
NextTyping ==
  \/ \E k \in {<<d>> : d \in KeypadDigits} \cup {Dot, PlusMinus} : KpPress(k)
  \/ KpBackspace
  \/ KpParse

NextKeypad ==
  \/ \E k \in {<<d>> : d \in KeypadDigits} \cup {Dot, PlusMinus} : KpPress(k)
  \/ KpBackspace
  \/ \E ch \in {<<d>> : d \in KeypadDigits} \cup {Dot, PlusMinus} : KpAppend(ch)
  \/ KpErase
  \/ KpNormalize
  \/ KpNormalizeAgain

\* ------------------------------------------------------------------------
\* parseNumber

InitParse ==
  /\ pnStage = "given"
  /\ pnInput \in ParseInputs
  /\ pnResult = Unset

IdleParse ==
  /\ pnStage = "given"
  /\ pnInput = <<>>
  /\ pnResult = Unset

\* parseNumber applied to the string.
PnParse ==
  /\ pnStage = "given"
  /\ pnResult' = parseNumber(pnInput)
  /\ pnStage' = "parsed"
  /\ UNCHANGED pnInput
  /\ UNCHANGED <<qrVars, kpVars, formVars, restVars>>

NextParse == PnParse

\* ------------------------------------------------------------------------
\* AddLog screen

\* After the first render: the load effect has started its getDoc.
InitForm ==
  /\ chiller = NoChiller
  /\ screenLoading = TRUE
  /\ inFlight = 1
  /\ closed = FALSE
  /\ tempC = <<>>
  /\ humidity = <<>>
  /\ status = "ok"
  /\ activeField = "none"
  /\ manual = "none"
  /\ lastOp = "none"
  /\ note = <<>>
  /\ photoUri = NoPhoto
  /\ saving = FALSE
  /\ photoUploading = FALSE
  /\ saveAlert = NoAlert
  /\ saveCount = 0
  /\ saves = <<>>
  /\ tempLogs = <<>>
  /\ lastReading = NoReading

\* The form is rendered (neither the spinner nor null).
UiShown == ~closed /\ ~screenLoading /\ chiller.loaded

\* getDoc resolves with the owner's chiller: setChiller, setScreenLoading(false),
\* then the auto-warning effect runs for the new chiller object.
LoadSucceeds(c) ==
  /\ ~closed
  /\ inFlight > 0
  /\ inFlight' = inFlight - 1
  /\ chiller' = c
  /\ screenLoading' = FALSE
  /\ status' = AutoStatus(c, tempC, status)
  /\ UNCHANGED <<closed, tempC, humidity, activeField, manual>>
  /\ lastOp' = "load"
  /\ UNCHANGED saveVars
  /\ UNCHANGED <<qrVars, kpVars, pnVars, restVars>>

\* The chiller is missing or not the user's: alert and router.back().
LoadRejected ==
  /\ ~closed
  /\ inFlight > 0
  /\ inFlight' = inFlight - 1
  /\ screenLoading' = FALSE
  /\ closed' = TRUE
  /\ UNCHANGED <<chiller, tempC, humidity, status, activeField, manual>>
  /\ lastOp' = "other"
  /\ UNCHANGED saveVars
  /\ UNCHANGED <<qrVars, kpVars, pnVars, restVars>>

\* getDoc rejects: alert only.
LoadError ==
  /\ ~closed
  /\ inFlight > 0
  /\ inFlight' = inFlight - 1
  /\ screenLoading' = FALSE
  /\ UNCHANGED <<chiller, closed, tempC, humidity, status, activeField, manual>>
  /\ lastOp' = "other"
  /\ UNCHANGED saveVars
  /\ UNCHANGED <<qrVars, kpVars, pnVars, restVars>>

\* The auth context hands over another user object: the load effect runs again.
UserChanges ==
  /\ ~closed
  /\ inFlight < MaxInFlight
  /\ inFlight' = inFlight + 1
  /\ screenLoading' = TRUE
  /\ UNCHANGED <<chiller, closed, tempC, humidity, status, activeField, manual>>
  /\ lastOp' = "other"
  /\ UNCHANGED saveVars
  /\ UNCHANGED <<qrVars, kpVars, pnVars, restVars>>

\* A FieldBox is pressed.
FocusField(f) ==
  /\ UiShown
  /\ activeField' = f
  /\ UNCHANGED <<chiller, screenLoading, inFlight, closed, tempC, humidity, status,
                 manual>>
  /\ lastOp' = "other"
  /\ UNCHANGED saveVars
  /\ UNCHANGED <<qrVars, kpVars, pnVars, restVars>>

\* Done, or a touch outside the keypad.
DismissKeypad ==
  /\ UiShown
  /\ activeField # "none"
  /\ activeField' = "none"
  /\ UNCHANGED <<chiller, screenLoading, inFlight, closed, tempC, humidity, status,
                 manual>>
  /\ lastOp' = "other"
  /\ UNCHANGED saveVars
  /\ UNCHANGED <<qrVars, kpVars, pnVars, restVars>>

FieldMode == IF activeField = "temp" THEN "signed-decimal" ELSE "unsigned-decimal"
FieldValue == IF activeField = "temp" THEN tempC ELSE humidity

\* The keypad's onChange(next): the active field is set; a changed tempC runs
\* the auto-warning effect in the render that follows.
OnChange(next) ==
  /\ IF activeField = "temp"
     THEN /\ tempC' = next
          /\ humidity' = humidity
          /\ status' = IF next # tempC THEN AutoStatus(chiller, next, status) ELSE status
     ELSE /\ humidity' = next
          /\ tempC' = tempC
          /\ status' = status
  /\ Len(tempC') + Len(humidity') <= MaxTyped
  /\ UNCHANGED <<chiller, screenLoading, inFlight, closed, activeField, manual>>

PressKey(k) ==
  /\ UiShown
  /\ activeField # "none"
  /\ k \in KeyLabels(FieldMode, FormDigits)
  /\ OnChange(KeyPressed(FieldValue, k, FieldMode))
  /\ lastOp' = IF tempC' # tempC THEN "temp" ELSE "other"
  /\ UNCHANGED saveVars
  /\ UNCHANGED <<qrVars, kpVars, pnVars, restVars>>

PressBackspace ==
  /\ UiShown
  /\ activeField # "none"
  /\ OnChange(BackspacePressed(FieldValue, FieldMode))
  /\ lastOp' = IF tempC' # tempC THEN "temp" ELSE "other"
  /\ UNCHANGED saveVars
  /\ UNCHANGED <<qrVars, kpVars, pnVars, restVars>>

\* A status chip is pressed.
SelectStatus(s) ==
  /\ UiShown
  /\ status' = s
  /\ manual' = s
  /\ UNCHANGED <<chiller, screenLoading, inFlight, closed, tempC, humidity, activeField>>
  /\ lastOp' = "chip"
  /\ UNCHANGED saveVars
  /\ UNCHANGED <<qrVars, kpVars, pnVars, restVars>>

\* The form as the user filled it: the chiller is loaded, the fields hold
\* keypad buffers, and a status chip was pressed last.
InitSave ==
  /\ chiller = Chiller(Num(2, 0), Num(5, 0))
  /\ screenLoading = FALSE
  /\ inFlight = 0
  /\ closed = FALSE
  /\ tempC \in SaveTemps
  /\ humidity \in SaveHumidities
  /\ status \in Statuses
  /\ activeField = "none"
  /\ manual = status
  /\ lastOp = "chip"
  /\ note = <<>>
  /\ photoUri = NoPhoto
  /\ saving = FALSE
  /\ photoUploading = FALSE
  /\ saveAlert = NoAlert
  /\ saveCount = 0
  /\ saves = <<>>
  /\ tempLogs = <<>>
  /\ lastReading = NoReading

\* The form with a temperature and a note typed in.
InitNoted ==
  /\ chiller = Chiller(Num(2, 0), Num(5, 0))
  /\ screenLoading = FALSE
  /\ inFlight = 0
  /\ closed = FALSE
  /\ tempC = Str(<<"2", ".", "5">>)
  /\ humidity = <<>>
  /\ status \in {"ok", "damaged"}
  /\ activeField = "none"
  /\ manual = status
  /\ lastOp = "chip"
  /\ note = Str(<<"n">>)
  /\ photoUri = NoPhoto
  /\ saving = FALSE
  /\ photoUploading = FALSE
  /\ saveAlert = NoAlert
  /\ saveCount = 0
  /\ saves = <<>>
  /\ tempLogs = <<>>
  /\ lastReading = NoReading

\* onChangeText of the note field.
EditNote(n) ==
  /\ UiShown
  /\ note' = n
  /\ lastOp' = "other"
  /\ UNCHANGED <<chiller, screenLoading, inFlight, closed, tempC, humidity, status,
                 activeField, manual>>
  /\ UNCHANGED <<photoUri, saving, photoUploading, saveAlert, saveCount,
                 saves, tempLogs, lastReading>>
  /\ UNCHANGED <<qrVars, kpVars, pnVars, restVars>>

\* pickOrTakePhoto, taken with the sheet and the picker as one step: a photo
\* is taken or chosen, setPhotoUri(asset.uri).
PhotoPicked(uri) ==
  /\ UiShown
  /\ status = "damaged"
  /\ ~photoUploading
  /\ photoUri' = uri
  /\ lastOp' = "other"
  /\ UNCHANGED <<chiller, screenLoading, inFlight, closed, tempC, humidity, status,
                 activeField, manual>>
  /\ UNCHANGED <<note, saving, photoUploading, saveAlert, saveCount,
                 saves, tempLogs, lastReading>>
  /\ UNCHANGED <<qrVars, kpVars, pnVars, restVars>>

\* Remove Photo: setPhotoUri(null).
RemovePhoto ==
  /\ UiShown
  /\ status = "damaged"
  /\ photoUri # NoPhoto
  /\ photoUri' = NoPhoto
  /\ lastOp' = "other"
  /\ UNCHANGED <<chiller, screenLoading, inFlight, closed, tempC, humidity, status,
                 activeField, manual>>
  /\ UNCHANGED <<note, saving, photoUploading, saveAlert, saveCount,
                 saves, tempLogs, lastReading>>
  /\ UNCHANGED <<qrVars, kpVars, pnVars, restVars>>

\* Cancel: router.back().
CancelPressed ==
  /\ UiShown
  /\ closed' = TRUE
  /\ lastOp' = "other"
  /\ UNCHANGED <<chiller, screenLoading, inFlight, tempC, humidity, status,
                 activeField, manual>>
  /\ UNCHANGED saveVars
  /\ UNCHANGED <<qrVars, kpVars, pnVars, restVars>>

\* onSave up to its first await, called by the Save button (disabled while
\* saving or uploading) or by the submit of the note field
\* (onSubmitEditing={onSave}): the keypad is dismissed, and either a
\* validation alert is shown or setSaving(true) and uploadPhotoIfNeeded
\* starts.
OnSave(button) ==
  /\ UiShown
  /\ button => ~(saving \/ photoUploading)
  /\ activeField' = "none"
  /\ lastOp' = "save"
  /\ LET failed == Validation(tempC, humidity, status, note, photoUri)
         sv     == [t |-> parseNumber(tempC), h |-> parseNumber(humidity),
                    status |-> status, note |-> note, photoUri |-> photoUri,
                    photoUrl |-> "null",
                    pc |-> IF photoUri = NoPhoto THEN "add" ELSE "upload"]
     IN  IF failed # NoAlert
         THEN /\ saveAlert' = failed
              /\ UNCHANGED <<saving, photoUploading, saveCount, saves>>
         ELSE /\ saveCount < (IF button THEN MaxSaves ELSE MaxSubmits)
              /\ saveCount' = saveCount + 1
              /\ saving' = TRUE
              /\ photoUploading' = IF photoUri = NoPhoto THEN photoUploading ELSE TRUE
              /\ saves' = Append(saves, sv)
              /\ UNCHANGED saveAlert
  /\ UNCHANGED <<chiller, screenLoading, inFlight, closed, tempC, humidity, status, manual>>
  /\ UNCHANGED <<note, photoUri, tempLogs, lastReading>>
  /\ UNCHANGED <<qrVars, kpVars, pnVars, restVars>>

\* uploadPhotoIfNeeded resolves with the download URL.
UploadDone(i) ==
  /\ i \in 1..Len(saves)
  /\ saves[i].pc = "upload"
  /\ saves' = [saves EXCEPT ![i].pc = "add", ![i].photoUrl = PhotoUrl]
  /\ photoUploading' = FALSE
  /\ UNCHANGED <<chiller, screenLoading, inFlight, closed, tempC, humidity, status,
                 activeField, manual, lastOp>>
  /\ UNCHANGED <<note, photoUri, saving, saveAlert, saveCount, tempLogs,
                 lastReading>>
  /\ UNCHANGED <<qrVars, kpVars, pnVars, restVars>>

\* fetch, uploadBytes or getDownloadURL rejects: alert, and
\* uploadPhotoIfNeeded resolves without a URL.
UploadFailed(i, msg) ==
  /\ i \in 1..Len(saves)
  /\ saves[i].pc = "upload"
  /\ saves' = [saves EXCEPT ![i].pc = "add"]
  /\ photoUploading' = FALSE
  /\ saveAlert' = Alert("Upload failed", msg)
  /\ UNCHANGED <<chiller, screenLoading, inFlight, closed, tempC, humidity, status,
                 activeField, manual, lastOp>>
  /\ UNCHANGED <<note, photoUri, saving, saveCount, tempLogs, lastReading>>
  /\ UNCHANGED <<qrVars, kpVars, pnVars, restVars>>

\* addDoc resolves: the tempLogs document exists.
AddDocDone(i) ==
  /\ i \in 1..Len(saves)
  /\ saves[i].pc = "add"
  /\ tempLogs' = Append(tempLogs, Reading(saves[i]))
  /\ saves' = [saves EXCEPT ![i].pc = "update"]
  /\ UNCHANGED <<chiller, screenLoading, inFlight, closed, tempC, humidity, status,
                 activeField, manual, lastOp>>
  /\ UNCHANGED <<note, photoUri, saving, photoUploading, saveAlert,
                 saveCount, lastReading>>
  /\ UNCHANGED <<qrVars, kpVars, pnVars, restVars>>

\* addDoc or updateDoc rejects: the alert of the catch block, setSaving(false).
SaveFailed(i, msg) ==
  /\ i \in 1..Len(saves)
  /\ saves[i].pc \in {"add", "update"}
  /\ saves' = RemoveAt(saves, i)
  /\ saveAlert' = Alert("Error", msg)
  /\ saving' = FALSE
  /\ UNCHANGED <<chiller, screenLoading, inFlight, closed, tempC, humidity, status,
                 activeField, manual, lastOp>>
  /\ UNCHANGED <<note, photoUri, photoUploading, saveCount, tempLogs,
                 lastReading>>
  /\ UNCHANGED <<qrVars, kpVars, pnVars, restVars>>

\* updateDoc resolves: lastReading is written, router.back(), setSaving(false).
UpdateDocDone(i) ==
  /\ i \in 1..Len(saves)
  /\ saves[i].pc = "update"
  /\ lastReading' = Reading(saves[i])
  /\ saves' = RemoveAt(saves, i)
  /\ closed' = TRUE
  /\ saving' = FALSE
  /\ UNCHANGED <<chiller, screenLoading, inFlight, tempC, humidity, status,
                 activeField, manual, lastOp>>
  /\ UNCHANGED <<note, photoUri, photoUploading, saveAlert, saveCount,
                 tempLogs>>
  /\ UNCHANGED <<qrVars, kpVars, pnVars, restVars>>

NextSave ==
  \/ \E n \in Notes : EditNote(n)
  \/ \E uri \in PhotoUris : PhotoPicked(uri)
  \/ RemovePhoto
  \/ \E s \in Statuses : SelectStatus(s)
  \/ CancelPressed
  \/ OnSave(TRUE)
  \/ \E i \in 1..MaxSaves : UploadDone(i)
  \/ \E i \in 1..MaxSaves, msg \in UploadErrors : UploadFailed(i, msg)
  \/ \E i \in 1..MaxSaves : AddDocDone(i)
  \/ \E i \in 1..MaxSaves, msg \in SaveErrors : SaveFailed(i, msg)
  \/ \E i \in 1..MaxSaves : UpdateDocDone(i)

\* The form filled in, and saved from the button and from the note field.
NextResave ==
  \/ \E uri \in PhotoUris : PhotoPicked(uri)
  \/ \E button \in BOOLEAN : OnSave(button)
  \/ \E i \in 1..MaxSubmits : UploadDone(i)
  \/ \E i \in 1..MaxSubmits, msg \in UploadErrors : UploadFailed(i, msg)
  \/ \E i \in 1..MaxSubmits : AddDocDone(i)
  \/ \E i \in 1..MaxSubmits, msg \in SaveErrors : SaveFailed(i, msg)
  \/ \E i \in 1..MaxSubmits : UpdateDocDone(i)

NextForm ==
  \/ \E c \in ChillerRanges : LoadSucceeds(c)
  \/ LoadRejected
  \/ LoadError
  \/ UserChanges
  \/ \E f \in {"temp", "humidity"} : FocusField(f)
  \/ DismissKeypad
  \/ \E k \in {<<d>> : d \in FormDigits} \cup {Dot, PlusMinus} : PressKey(k)
  \/ PressBackspace
  \/ \E s \in Statuses : SelectStatus(s)

\* ------------------------------------------------------------------------
\* src/context/AuthContext.tsx

NoProfile == [uid |-> "null"]

\* normalizeProfile(u, data): uid is u.uid.
normalizeProfile(u) == [uid |-> u]

\* A handler that has no finally: setLoading(false) is skipped when
\* refreshProfile failed.
handlerEndNoFinally(failed, loading) == IF failed THEN loading ELSE FALSE

\* The handler of onAuthStateChanged ends: finally { setLoading(false) }.
handlerEnd(failed, loading) == FALSE

\* After construction: no user, no profile, loading, and the listener
\* registered.
InitAuth ==
  /\ auCurrent = NoUser
  /\ auUser = NoUser
  /\ auProfile = NoProfile
  /\ auLoading = TRUE
  /\ auRuns = <<>>
  /\ auEvents = 0
  /\ auCalls = 0

IdleAuth == InitAuth

\* The state after a call has ended: the profile it set, if any, and for the
\* call made by the handler, the handler's finally.
AuEnd(i, set, profile, failed) ==
  /\ auRuns' = RemoveAt(auRuns, i)
  /\ auProfile' = IF set THEN profile ELSE auProfile
  /\ auLoading' = IF auRuns[i].by = "event" THEN handlerEnd(failed, auLoading)
                  ELSE auLoading
  /\ UNCHANGED <<auCurrent, auUser, auEvents, auCalls>>
  /\ UNCHANGED <<qrVars, kpVars, formVars, pnVars, edVars, scVars>>

\* The auth state changes (the first event, a sign-in, a sign-out) and the
\* listener runs up to its first await: setLoading(true), setUser(u),
\* setProfile(null), and for a user refreshProfile up to getDoc; with no
\* user it runs to its end.
AuStateChanged(u) ==
  /\ auEvents < MaxAuthEvents
  /\ u # auCurrent \/ auEvents = 0
  /\ auEvents' = auEvents + 1
  /\ auCurrent' = u
  /\ auUser' = u
  /\ auProfile' = NoProfile
  /\ IF u = NoUser
     THEN /\ auLoading' = handlerEnd(FALSE, TRUE)
          /\ UNCHANGED auRuns
     ELSE /\ auLoading' = TRUE
          /\ auRuns' = Append(auRuns, [u |-> u, by |-> "event", pc |-> "getDoc"])
  /\ UNCHANGED auCalls
  /\ UNCHANGED <<qrVars, kpVars, formVars, pnVars, edVars, scVars>>

\* A screen calls refreshProfile or ensureProfile, up to the first await.
AuCalled(by) ==
  /\ auCalls < MaxAuthCalls
  /\ auCalls' = auCalls + 1
  /\ IF auCurrent = NoUser
     THEN /\ auProfile' = IF by = "refresh" THEN NoProfile ELSE auProfile
          /\ UNCHANGED auRuns
     ELSE /\ auRuns' = Append(auRuns, [u |-> auCurrent, by |-> by, pc |-> "getDoc"])
          /\ UNCHANGED auProfile
  /\ UNCHANGED <<auCurrent, auUser, auLoading, auEvents>>
  /\ UNCHANGED <<qrVars, kpVars, formVars, pnVars, edVars, scVars>>

\* getDoc resolves with the user's document: ensureProfile sets the
\* profile; refreshProfile first writes updatedAt.
AuDocFound(i) ==
  /\ i \in 1..Len(auRuns)
  /\ auRuns[i].pc = "getDoc"
  /\ IF auRuns[i].by = "ensure"
     THEN AuEnd(i, TRUE, normalizeProfile(auRuns[i].u), FALSE)
     ELSE /\ auRuns' = [auRuns EXCEPT ![i].pc = "touch"]
          /\ UNCHANGED <<auCurrent, auUser, auProfile, auLoading, auEvents, auCalls>>
          /\ UNCHANGED <<qrVars, kpVars, formVars, pnVars, edVars, scVars>>

\* setDoc of updatedAt settles, its rejection caught: setProfile(p).
AuTouched(i) ==
  /\ i \in 1..Len(auRuns)
  /\ auRuns[i].pc = "touch"
  /\ AuEnd(i, TRUE, normalizeProfile(auRuns[i].u), FALSE)

\* getDoc resolves with no document: createDefaultProfile starts.
AuDocMissing(i) ==
  /\ i \in 1..Len(auRuns)
  /\ auRuns[i].pc = "getDoc"
  /\ auRuns' = [auRuns EXCEPT ![i].pc = "create"]
  /\ UNCHANGED <<auCurrent, auUser, auProfile, auLoading, auEvents, auCalls>>
  /\ UNCHANGED <<qrVars, kpVars, formVars, pnVars, edVars, scVars>>

\* createDefaultProfile resolves: setProfile(created).
AuCreated(i) ==
  /\ i \in 1..Len(auRuns)
  /\ auRuns[i].pc = "create"
  /\ AuEnd(i, TRUE, normalizeProfile(auRuns[i].u), FALSE)

\* getDoc or createDefaultProfile rejects: the catch block, which in
\* refreshProfile sets the profile to null.
AuRejected(i) ==
  /\ i \in 1..Len(auRuns)
  /\ auRuns[i].pc \in {"getDoc", "create"}
  /\ AuEnd(i, auRuns[i].by # "ensure", NoProfile, TRUE)

\* A call in flight settles.
AuSettles ==
  \E i \in 1..(MaxAuthEvents + MaxAuthCalls) :
    AuDocFound(i) \/ AuTouched(i) \/ AuDocMissing(i) \/ AuCreated(i) \/ AuRejected(i)

NextAuth ==
  \/ \E u \in AuthUsers : AuStateChanged(u)
  \/ \E by \in {"refresh", "ensure"} : AuCalled(by)
  \/ \E i \in 1..(MaxAuthEvents + MaxAuthCalls) : AuDocFound(i)
  \/ \E i \in 1..(MaxAuthEvents + MaxAuthCalls) : AuTouched(i)
  \/ \E i \in 1..(MaxAuthEvents + MaxAuthCalls) : AuDocMissing(i)
  \/ \E i \in 1..(MaxAuthEvents + MaxAuthCalls) : AuCreated(i)
  \/ \E i \in 1..(MaxAuthEvents + MaxAuthCalls) : AuRejected(i)

\* ------------------------------------------------------------------------
\* ScanQr screen

NoRoute == [path |-> "none", id |-> <<>>]

\* After the first render: the effect has asked for the camera permission.
InitScan ==
  /\ scPermission = "null"
  /\ scScanned = FALSE
  /\ scRendered = FALSE
  /\ scAlerts = <<>>
  /\ scTimers = {}
  /\ scRoute = NoRoute
  /\ scLast = [text |-> <<>>, outcome |-> "none", tick |-> 0]

IdleScan == InitScan

\* The camera is rendered.
CameraShown == scPermission = "granted" /\ scRoute = NoRoute

\* requestCameraPermissionsAsync resolves: setHasPermission(ok).
ScPermissionResult(ok) ==
  /\ scPermission = "null"
  /\ scPermission' = IF ok THEN "granted" ELSE "denied"
  /\ UNCHANGED <<scScanned, scRendered, scAlerts, scTimers, scRoute, scLast>>
  /\ UNCHANGED <<qrVars, kpVars, formVars, pnVars, edVars, auVars>>

\* Enable Camera, with the permission now granted: setHasPermission(true),
\* setScanned(false).
ScEnableCamera ==
  /\ scPermission = "denied"
  /\ scPermission' = "granted"
  /\ scScanned' = FALSE
  /\ UNCHANGED <<scRendered, scAlerts, scTimers, scRoute, scLast>>
  /\ UNCHANGED <<qrVars, kpVars, formVars, pnVars, edVars, auVars>>

\* The screen renders again after setScanned: the CameraView gets
\* onBarcodeScanned = scanned ? undefined : onScan.
ScRender ==
  /\ scRoute = NoRoute
  /\ scRendered # scScanned
  /\ scRendered' = scScanned
  /\ UNCHANGED <<scPermission, scScanned, scAlerts, scTimers, scRoute, scLast>>
  /\ UNCHANGED <<qrVars, kpVars, formVars, pnVars, edVars, auVars>>

\* onScan(res) with the scanned of its render, called by the camera while
\* the prop of the last render is onScan.
onScan(text, scanned) ==
  LET chillerId == parseChillerIdFromQr(Trim(text)) IN
  IF scanned THEN [outcome |-> "ignored", alert |-> <<>>, scanned |-> scScanned]
  ELSE IF chillerId.kind = "throw"
  THEN [outcome |-> "threw", alert |-> <<>>, scanned |-> scScanned]
  ELSE IF chillerId.kind = "null"
  THEN [outcome |-> "invalid", alert |-> <<[kind |-> "invalid", id |-> <<>>]>>,
        scanned |-> TRUE]
  ELSE [outcome |-> "found", alert |-> <<[kind |-> "found", id |-> chillerId.val]>>,
        scanned |-> TRUE]

\* A barcode event.
ScBarcode(text) ==
  /\ CameraShown
  /\ ~scRendered
  /\ Len(scAlerts) < MaxAlerts
  /\ LET res == onScan(text, scRendered) IN
       /\ scScanned' = res.scanned
       /\ scAlerts' = scAlerts \o res.alert
       /\ scLast' = [text |-> text, outcome |-> res.outcome, tick |-> 1 - scLast.tick]
  /\ UNCHANGED <<scPermission, scRendered, scTimers, scRoute>>
  /\ UNCHANGED <<qrVars, kpVars, formVars, pnVars, edVars, auVars>>

\* Scan again of the Invalid QR alert, Cancel of the Chiller found alert:
\* setScanned(false).
ScAlertReset ==
  /\ scAlerts # <<>>
  /\ scAlerts' = Tail(scAlerts)
  /\ scScanned' = IF scRoute = NoRoute THEN FALSE ELSE scScanned
  /\ UNCHANGED <<scPermission, scRendered, scTimers, scRoute, scLast>>
  /\ UNCHANGED <<qrVars, kpVars, formVars, pnVars, edVars, auVars>>

\* Add Reading or View History of the Chiller found alert: setTimeout.
ScAlertOpen(path) ==
  /\ scAlerts # <<>>
  /\ Head(scAlerts).kind = "found"
  /\ scAlerts' = Tail(scAlerts)
  /\ scTimers' = scTimers \cup {[path |-> path, id |-> encodeURIComponent(Head(scAlerts).id)]}
  /\ UNCHANGED <<scPermission, scScanned, scRendered, scRoute, scLast>>
  /\ UNCHANGED <<qrVars, kpVars, formVars, pnVars, edVars, auVars>>

\* A timer fires: router.replace.
ScTimerFires(tm) ==
  /\ tm \in scTimers
  /\ scTimers' = scTimers \ {tm}
  /\ scRoute' = tm
  /\ UNCHANGED <<scPermission, scScanned, scRendered, scAlerts, scLast>>
  /\ UNCHANGED <<qrVars, kpVars, formVars, pnVars, edVars, auVars>>

\* The button under the camera, reachable while no alert is open:
\* setScanned(false).
ScResetButton ==
  /\ CameraShown
  /\ scAlerts = <<>>
  /\ scScanned' = FALSE
  /\ UNCHANGED <<scPermission, scRendered, scAlerts, scTimers, scRoute, scLast>>
  /\ UNCHANGED <<qrVars, kpVars, formVars, pnVars, edVars, auVars>>

NextScan ==
  \/ \E ok \in BOOLEAN : ScPermissionResult(ok)
  \/ ScEnableCamera
  \/ ScRender
  \/ \E text \in ScanTexts : ScBarcode(text)
  \/ ScAlertReset
  \/ \E path \in ScanTargets : ScAlertOpen(path)
  \/ \E tm \in scTimers : ScTimerFires(tm)
  \/ ScResetButton

\* ------------------------------------------------------------------------
\* ChillerEdit screen

\* The screen is not on the stack.
IdleEdit ==
  /\ edMounted = FALSE
  /\ edChillerId = "new"
  /\ edUser = NoUser
  /\ edPageLoading = FALSE
  /\ edName = <<>>
  /\ edBranchId = <<>>
  /\ edBranches = "loading"
  /\ edMin = <<>>
  /\ edMax = <<>>
  /\ edIsActive = TRUE
  /\ edSaving = FALSE
  /\ edWrites = <<>>
  /\ edDocs = <<>>
  /\ edAlert = NoAlert
  /\ edLoads = {}
  /\ edListeners = {}
  /\ edApplied = NoListener

IdleRest == IdleEdit /\ IdleScan /\ IdleAuth

\* The form of a new or of a loaded chiller as the user filled it.
InitEditFilled ==
  /\ edMounted = TRUE
  /\ edChillerId \in {"new", "c1"}
  /\ edUser = "u1"
  /\ edPageLoading = FALSE
  /\ edName \in EditNames
  /\ edBranchId \in EditBranchIds
  /\ edBranches \in {"none", "some"}
  /\ edMin \in EditBounds
  /\ edMax \in EditBounds
  /\ edIsActive = TRUE
  /\ edSaving = FALSE
  /\ edWrites = <<>>
  /\ edDocs = <<>>
  /\ edAlert = NoAlert
  /\ edLoads = {}
  /\ edListeners = IF edChillerId = "new" THEN {} ELSE {[id |-> edChillerId, uid |-> edUser]}
  /\ edApplied = IF edChillerId = "new" THEN NoListener
                 ELSE [id |-> edChillerId, uid |-> edUser]

\* After the first render of the screen opened for a new or for an existing
\* chiller: the live effect has run.
InitEditLive ==
  /\ edMounted = TRUE
  /\ edChillerId \in {"new"} \cup ChillerIds
  /\ edUser = "u1"
  /\ edPageLoading = (edChillerId # "new")
  /\ edName = <<>>
  /\ edBranchId = <<>>
  /\ edBranches = "some"
  /\ edMin = <<>>
  /\ edMax = <<>>
  /\ edIsActive = TRUE
  /\ edSaving = FALSE
  /\ edWrites = <<>>
  /\ edDocs = <<>>
  /\ edAlert = NoAlert
  /\ edLoads = IF edChillerId = "new" THEN {} ELSE {[id |-> edChillerId, uid |-> edUser]}
  /\ edListeners = {}
  /\ edApplied = NoListener

\* The form is rendered (neither the spinner nor null).
EditUiShown == edMounted /\ ~edPageLoading /\ edUser # NoUser

\* onChangeText of the name field.
EdSetName(n) ==
  /\ EditUiShown
  /\ edName' = n
  /\ UNCHANGED <<edMounted, edChillerId, edUser, edPageLoading, edBranchId, edBranches,
                 edMin, edMax, edIsActive, edSaving, edWrites, edDocs, edAlert,
                 edLoads, edListeners, edApplied>>
  /\ UNCHANGED <<qrVars, kpVars, formVars, pnVars, scVars, auVars>>

\* onValueChange of the Active switch.
EdToggleActive ==
  /\ EditUiShown
  /\ edIsActive' = ~edIsActive
  /\ UNCHANGED <<edMounted, edChillerId, edUser, edPageLoading, edName, edBranchId,
                 edBranches, edMin, edMax, edSaving, edWrites, edDocs, edAlert,
                 edLoads, edListeners, edApplied>>
  /\ UNCHANGED <<qrVars, kpVars, formVars, pnVars, scVars, auVars>>

\* The Save button, enabled while canSave: onSave up to its await.
EdSavePressed ==
  /\ EditUiShown
  /\ canSave(edUser, edSaving, edBranches, edName, edBranchId, edMin, edMax)
  /\ LET failed == EditValidation(edBranches, edName, edBranchId, edMin, edMax)
         w      == [isNew |-> edChillerId = "new", id |-> edChillerId,
                    name |-> Trim(edName), branchId |-> edBranchId,
                    minTemp |-> parseNumberOrNull(edMin),
                    maxTemp |-> parseNumberOrNull(edMax), isActive |-> edIsActive]
     IN  IF failed # NoAlert
         THEN /\ edAlert' = failed
              /\ UNCHANGED <<edSaving, edWrites>>
         ELSE /\ edSaving' = TRUE
              /\ edWrites' = Append(edWrites, w)
              /\ UNCHANGED edAlert
  /\ UNCHANGED <<edMounted, edChillerId, edUser, edPageLoading, edName, edBranchId,
                 edBranches, edMin, edMax, edIsActive, edDocs, edLoads, edListeners,
                 edApplied>>
  /\ UNCHANGED <<qrVars, kpVars, formVars, pnVars, scVars, auVars>>

\* addDoc or updateDoc resolves: the document is written, router.back(),
\* setSaving(false).
EdWriteDone ==
  /\ edWrites # <<>>
  /\ edDocs' = Append(edDocs, Head(edWrites))
  /\ edWrites' = Tail(edWrites)
  /\ edMounted' = FALSE
  /\ edSaving' = FALSE
  /\ UNCHANGED <<edChillerId, edUser, edPageLoading, edName, edBranchId, edBranches,
                 edMin, edMax, edIsActive, edAlert, edLoads, edListeners, edApplied>>
  /\ UNCHANGED <<qrVars, kpVars, formVars, pnVars, scVars, auVars>>

\* addDoc or updateDoc rejects: alert, setSaving(false).
EdWriteFailed ==
  /\ edWrites # <<>>
  /\ edWrites' = Tail(edWrites)
  /\ edAlert' = Alert("Error", "Failed to save")
  /\ edSaving' = FALSE
  /\ UNCHANGED <<edMounted, edChillerId, edUser, edPageLoading, edName, edBranchId,
                 edBranches, edMin, edMax, edIsActive, edDocs, edLoads, edListeners,
                 edApplied>>
  /\ UNCHANGED <<qrVars, kpVars, formVars, pnVars, scVars, auVars>>

\* The live effect of a render with this chillerId and user. The effect
\* returns nothing: the listeners and the loads of earlier runs stay.
LiveEffect(id, user) ==
  IF user = NoUser \/ id = "new"
  THEN /\ edPageLoading' = FALSE
       /\ UNCHANGED edLoads
  ELSE /\ edPageLoading' = TRUE
       /\ edLoads' = edLoads \cup {[id |-> id, uid |-> user]}

\* The route is given another id: the effect runs again.
EdParamChange(id) ==
  /\ edMounted
  /\ id # edChillerId
  /\ edChillerId' = id
  /\ LiveEffect(id, edUser)
  /\ UNCHANGED <<edMounted, edUser, edName, edBranchId, edBranches, edMin, edMax,
                 edIsActive, edSaving, edWrites, edDocs, edAlert, edListeners,
                 edApplied>>
  /\ UNCHANGED <<qrVars, kpVars, formVars, pnVars, scVars, auVars>>

\* The auth context hands over another user: the effect runs again.
EdUserChange(u) ==
  /\ edMounted
  /\ u # edUser
  /\ edUser' = u
  /\ LiveEffect(edChillerId, u)
  /\ UNCHANGED <<edMounted, edChillerId, edName, edBranchId, edBranches, edMin, edMax,
                 edIsActive, edSaving, edWrites, edDocs, edAlert, edListeners,
                 edApplied>>
  /\ UNCHANGED <<qrVars, kpVars, formVars, pnVars, scVars, auVars>>

\* The screen is left. The effect has no cleanup to run.
EdUnmount ==
  /\ edMounted
  /\ edMounted' = FALSE
  /\ UNCHANGED <<edChillerId, edUser, edPageLoading, edName, edBranchId, edBranches,
                 edMin, edMax, edIsActive, edSaving, edWrites, edDocs, edAlert,
                 edLoads, edListeners, edApplied>>
  /\ UNCHANGED <<qrVars, kpVars, formVars, pnVars, scVars, auVars>>

\* getDoc resolves with the user's chiller: onSnapshot registers a listener.
EdLoadOk(l) ==
  /\ l \in edLoads
  /\ l.uid = ChillerOwner
  /\ edLoads' = edLoads \ {l}
  /\ edListeners' = edListeners \cup {l}
  /\ UNCHANGED <<edMounted, edChillerId, edUser, edPageLoading, edName, edBranchId,
                 edBranches, edMin, edMax, edIsActive, edSaving, edWrites, edDocs,
                 edAlert, edApplied>>
  /\ UNCHANGED <<qrVars, kpVars, formVars, pnVars, scVars, auVars>>

\* getDoc resolves with no document or with another owner's: alert and
\* router.back().
EdLoadRejected(l) ==
  /\ l \in edLoads
  /\ edLoads' = edLoads \ {l}
  /\ edAlert' = IF l.uid = ChillerOwner
                 THEN Alert("Not found", "This chiller does not exist.")
                 ELSE Alert("Access denied", "This chiller is not yours.")
  /\ edMounted' = FALSE
  /\ UNCHANGED <<edChillerId, edUser, edPageLoading, edName, edBranchId, edBranches,
                 edMin, edMax, edIsActive, edSaving, edWrites, edDocs, edListeners,
                 edApplied>>
  /\ UNCHANGED <<qrVars, kpVars, formVars, pnVars, scVars, auVars>>

\* getDoc rejects: setPageLoading(false) and an alert.
EdLoadError(l) ==
  /\ l \in edLoads
  /\ edLoads' = edLoads \ {l}
  /\ edPageLoading' = IF edMounted THEN FALSE ELSE edPageLoading
  /\ edAlert' = Alert("Error", "Failed to load chiller")
  /\ UNCHANGED <<edMounted, edChillerId, edUser, edName, edBranchId, edBranches,
                 edMin, edMax, edIsActive, edSaving, edWrites, edDocs, edListeners,
                 edApplied>>
  /\ UNCHANGED <<qrVars, kpVars, formVars, pnVars, scVars, auVars>>

\* A listener gets a snapshot of its chiller while the screen is mounted:
\* the five fields are set from it, setPageLoading(false).
EdSnapshot(l) ==
  /\ l \in edListeners
  /\ edMounted
  /\ LET x == ServerDoc(l.id) IN
       /\ edName' = x.name
       /\ edBranchId' = x.branchId
       /\ edMin' = BoundText(x.minTemp)
       /\ edMax' = BoundText(x.maxTemp)
       /\ edIsActive' = x.isActive
  /\ edPageLoading' = FALSE
  /\ edApplied' = l
  /\ UNCHANGED <<edMounted, edChillerId, edUser, edBranches, edSaving, edWrites,
                 edDocs, edAlert, edLoads, edListeners>>
  /\ UNCHANGED <<qrVars, kpVars, formVars, pnVars, scVars, auVars>>

\* A listener fails, which ends it: setPageLoading(false) and an alert.
EdSnapshotError(l) ==
  /\ l \in edListeners
  /\ edListeners' = edListeners \ {l}
  /\ edPageLoading' = IF edMounted THEN FALSE ELSE edPageLoading
  /\ edAlert' = Alert("Error", "Failed to load chiller")
  /\ UNCHANGED <<edMounted, edChillerId, edUser, edName, edBranchId, edBranches,
                 edMin, edMax, edIsActive, edSaving, edWrites, edDocs, edLoads,
                 edApplied>>
  /\ UNCHANGED <<qrVars, kpVars, formVars, pnVars, scVars, auVars>>

EditListeners == [id : ChillerIds, uid : EditUsers]

NextEditLive ==
  \/ \E n \in EditNames : EdSetName(n)
  \/ \E id \in {"new"} \cup ChillerIds : EdParamChange(id)
  \/ \E u \in {NoUser} \cup EditUsers : EdUserChange(u)
  \/ EdUnmount
  \/ \E l \in EditListeners : EdLoadOk(l)
  \/ \E l \in EditListeners : EdLoadRejected(l)
  \/ \E l \in EditListeners : EdLoadError(l)
  \/ \E l \in EditListeners : EdSnapshot(l)
  \/ \E l \in EditListeners : EdSnapshotError(l)

NextEditSave ==
  \/ \E n \in EditNames : EdSetName(n)
  \/ EdToggleActive
  \/ EdSavePressed
  \/ EdWriteDone
  \/ EdWriteFailed

\* ------------------------------------------------------------------------
\* Specifications

Init == InitQr /\ IdleKeypad /\ InitForm /\ IdleParse /\ IdleRest

SpecQr == Init /\ [][NextQr]_vars

\* The keypad mounted with any seeded value, the rest at rest.
InitSeeded == InitQr /\ InitKeypad /\ InitForm /\ IdleParse /\ IdleRest

SpecKeypad == InitSeeded /\ [][NextKeypad]_vars

SpecForm == Init /\ [][NextForm]_vars

\* parseNumber handed any string.
InitGiven == InitQr /\ IdleKeypad /\ InitForm /\ InitParse /\ IdleRest

SpecParse == InitGiven /\ [][NextParse]_vars

\* The filled form, saved.
InitFilled == InitQr /\ IdleKeypad /\ InitSave /\ IdleParse /\ IdleRest

SpecSave == InitFilled /\ [][NextSave]_vars

\* The temperature field, typed with the keypad and read.
SpecTyping == Init /\ [][NextTyping]_vars

\* The filled form, saved from the button and from the note field.
InitResave == InitQr /\ IdleKeypad /\ InitNoted /\ IdleParse /\ IdleRest

SpecResave == InitResave /\ [][NextResave]_vars

\* The auth provider, mounted.
SpecAuth == Init /\ [][NextAuth]_vars

\* The same, where every call to Firestore settles.
SpecAuthSettling == Init /\ [][NextAuth]_vars /\ WF_vars(AuSettles)

\* The chiller form, opened and kept live.
InitLive ==
  InitQr /\ IdleKeypad /\ InitForm /\ IdleParse /\ InitEditLive /\ IdleScan /\ IdleAuth

SpecEditLive == InitLive /\ [][NextEditLive]_vars

\* The scan screen, opened.
SpecScan == Init /\ [][NextScan]_vars

\* The chiller form, saved.
InitEdited ==
  InitQr /\ IdleKeypad /\ InitForm /\ IdleParse /\ InitEditFilled /\ IdleScan /\ IdleAuth

SpecEditSave == InitEdited /\ [][NextEditSave]_vars

Next == NextQr \/ NextKeypad \/ NextForm \/ NextParse \/ NextSave \/ NextEditSave
        \/ NextScan \/ NextTyping \/ NextResave \/ NextAuth
        \/ NextEditLive

Spec == Init /\ [][Next]_vars

\* ------------------------------------------------------------------------
\* Properties of the QR codec (SpecQr)

\* No unpaired surrogate: every character percent-encodes reversibly.
WellFormed(s) ==
  \A i \in 1..Len(s) :
    /\ IsHighSurrogate(s[i]) => i < Len(s) /\ IsLowSurrogate(s[i + 1])
    /\ IsLowSurrogate(s[i]) => i > 1 /\ IsHighSurrogate(s[i - 1])

\* C1 as stated: for every non-empty identifier x made only of characters
\* that percent-encode reversibly, parseChillerIdFromQr(buildChillerQrValue(x))
\* returns exactly x.
C1_RoundTripAsStated ==
  (qrStage = "roundtrip" /\ qrId # <<>> /\ WellFormed(qrId))
    => qrResult = Value(qrId)

\* C1 amended: the round trip returns exactly x for every non-empty
\* identifier x of reversibly encoding characters that neither starts nor
\* ends with white space.
C1_RoundTrip ==
  (qrStage = "roundtrip" /\ qrId # <<>> /\ WellFormed(qrId) /\ Trim(qrId) = qrId)
    => qrResult = Value(qrId)

\* An identifier with a reserved character, a percent sign and a non-ASCII
\* letter came back unchanged.
C1_Witness ==
  /\ qrStage = "roundtrip"
  /\ qrId = <<Ord("%"), 233, Ord("/")>>
  /\ qrResult = Value(qrId)

\* C2: parseChillerIdFromQr is total: for every input it returns an
\* identifier or none and never raises an error.
C2_NeverThrows == qrResult.kind # "throw"

\* ------------------------------------------------------------------------
\* Properties of the add-reading form (SpecForm)

Tier(s) == CASE s = "ok" -> 0 [] s = "warning" -> 1 [] s = "damaged" -> 2

\* t lies below a present minimum or above a present maximum.
OutOfRange(c, t) ==
  \/ c.minTemp.kind = "num" /\ t.m * Pow10(c.minTemp.f) < c.minTemp.m * Pow10(t.f)
  \/ c.maxTemp.kind = "num" /\ t.m * Pow10(c.maxTemp.f) > c.maxTemp.m * Pow10(t.f)

Parses(temp) == parseNumber(temp).kind = "num"

InRange(c, temp) == Parses(temp) /\ ~OutOfRange(c, parseNumber(temp))

\* C3: once the status is "damaged", no change of the temperature input and
\* no load of the chiller changes it; only a press of a status chip does.
C3_DamagedSticky ==
  [][(status = "damaged" /\ lastOp' # "chip") => status' = "damaged"]_vars

\* The chiller was loaded again under a "damaged" status with a temperature
\* out of its range, and the status is still "damaged".
C3_Witness ==
  /\ lastOp = "load"
  /\ status = "damaged"
  /\ Parses(tempC)
  /\ OutOfRange(chiller, parseNumber(tempC))

\* C4 as stated: when a manually selected "warning" or "damaged" is in force
\* with the temperature within range, a temperature change that classifies
\* as "ok" does not lower the status below the selected tier.
C4_ManualTierKeptAsStated ==
  [][(/\ manual \in {"warning", "damaged"}
      /\ status = manual
      /\ InRange(chiller, tempC)
      /\ tempC' # tempC
      /\ InRange(chiller, tempC'))
     => Tier(status') >= Tier(manual)]_vars

\* C4 amended: under the same conditions a manually selected "damaged" is
\* kept, and a manually selected "warning" is recomputed to "ok".
C4_ManualDamagedKept ==
  [][(/\ manual \in {"warning", "damaged"}
      /\ status = manual
      /\ InRange(chiller, tempC)
      /\ tempC' # tempC
      /\ InRange(chiller, tempC'))
     => status' = IF manual = "damaged" THEN "damaged" ELSE "ok"]_vars

\* The temperature changed within the range after "damaged" was selected.
C4_Witness ==
  /\ lastOp = "temp"
  /\ manual = "damaged"
  /\ status = "damaged"
  /\ InRange(chiller, tempC)

\* C5: after a recomputation with a status other than "damaged" and a
\* temperature that parses to t, the status is "warning" iff t is below a
\* present minimum or above a present maximum, and "ok" otherwise.
C5_Classification ==
  (/\ lastOp \in {"temp", "load"}
   /\ chiller.loaded
   /\ status # "damaged"
   /\ Parses(tempC))
    => status = IF OutOfRange(chiller, parseNumber(tempC)) THEN "warning" ELSE "ok"

\* A temperature equal to the maximum of a one-sided range was entered and
\* classified "ok".
C5_Witness ==
  /\ lastOp = "temp"
  /\ chiller = Chiller(NumNull, Num(5, 0))
  /\ tempC = Str(<<"5">>)
  /\ status = "ok"

\* C6: a change of the temperature input to a buffer that parses as empty
\* or invalid leaves the status as it was.
C6_InvalidKeepsStatus ==
  [][(tempC' # tempC /\ ~Parses(tempC')) => status' = status]_vars

\* The buffer became "-" and the automatic "warning" is retained.
C6_Witness ==
  /\ lastOp = "temp"
  /\ tempC = Str(<<"-">>)
  /\ manual = "none"
  /\ status = "warning"

\* C7: the status is "damaged" only through a press of the Damaged chip.
C7_DamagedOnlyManual == status = "damaged" => manual = "damaged"

\* A temperature far above the maximum was entered with no chip ever
\* pressed, and the status is "warning".
C7_Witness ==
  /\ lastOp = "temp"
  /\ manual = "none"
  /\ chiller = Chiller(Num(2, 0), Num(5, 0))
  /\ tempC = Str(<<"5", "5">>)
  /\ status = "warning"

\* ------------------------------------------------------------------------
\* Properties of the keypad (SpecKeypad)

CountOf(s, c) == Cardinality({i \in 1..Len(s) : s[i] = c})

DigitsOf(s) == SelectSeq(s, IsDigit)

\* s matches -?[0-9]*(\.[0-9]*)? with the minus in signed mode only.
MatchesGrammar(s, mode) ==
  LET minus == s # <<>> /\ s[1] = Ord("-")
      rest  == IF minus THEN Tail(s) ELSE s
  IN  /\ minus => mode = "signed-decimal"
      /\ \A i \in 1..Len(rest) : IsDigit(rest[i]) \/ rest[i] = Ord(".")
      /\ CountOf(rest, Ord(".")) <= 1

\* C8: every result of normalizeInput, and so every buffer the keypad hands
\* to onChange, matches -?[0-9]*(\.[0-9]*)? with the minus in signed mode
\* only; normalization always returns a buffer.
C8_Grammar ==
  kpStage \in {"typed", "once", "twice"}
    => kpOut.kind = "value" /\ MatchesGrammar(kpOut.val, kpMode)

\* A raw string whose minus leads only once the other characters are
\* stripped was normalized.
C8_Witness ==
  /\ kpStage = "once"
  /\ kpMode = "signed-decimal"
  /\ kpValue = Str(<<"x", "-", ",", "1">>)
  /\ kpOut = Value(Str(<<"-", ".", "1">>))

\* C9: normalizeInput is idempotent.
C9_Idempotent == kpStage = "twice" => kpAgain = kpOut

\* A raw string with three separators was normalized twice.
C9_Witness ==
  /\ kpStage = "twice"
  /\ kpValue = Str(<<"1", ",", ".", ".">>)
  /\ kpOut = Value(Str(<<"1", ".">>))
  /\ kpAgain = kpOut

\* Position of the first "." or "," of s.
FirstSeparator(s) ==
  CHOOSE i \in 1..Len(s) :
    /\ s[i] \in {Ord("."), Ord(",")}
    /\ \A j \in 1..(i - 1) : s[j] \notin {Ord("."), Ord(",")}

\* C10: for an input with two or more "." or ",", normalizeInput yields
\* exactly one ".", with as many digits before it as before the first
\* separator of the input, and the digits of the input in their order.
C10_DotCollapse ==
  (kpStage = "once" /\ CountOf(kpValue, Ord(".")) + CountOf(kpValue, Ord(",")) >= 2)
    => /\ CountOf(kpOut.val, Ord(".")) = 1
       /\ DigitsOf(kpOut.val) = DigitsOf(kpValue)
       /\ Len(DigitsOf(SubSeq(kpOut.val, 1, FirstSeparator(kpOut.val) - 1)))
            = Len(DigitsOf(SubSeq(kpValue, 1, FirstSeparator(kpValue) - 1)))

\* "1.2.3" was normalized to "1.23".
C10_Witness ==
  /\ kpStage = "once"
  /\ kpValue = Str(<<"1", ".", "2", ".", "3">>)
  /\ kpOut = Value(Str(<<"1", ".", "2", "3">>))

\* The digits, "-", "." and "," of s.
KeptChars(s) ==
  SelectSeq(s, LAMBDA c : IsDigit(c) \/ c \in {Ord("-"), Ord("."), Ord(",")})

\* C11: the result of normalizeInput holds at most one "-", at its front
\* only, and holds it exactly when the mode is signed and the first character
\* of the input that is a digit, "-", "." or "," is "-"; a later "-" is
\* dropped, and in unsigned mode every "-" is.
C11_MinusCollapse ==
  kpStage = "once" =>
    LET out == kpOut.val IN
    /\ CountOf(out, Ord("-")) <= 1
    /\ \A i \in 1..Len(out) : out[i] = Ord("-") => i = 1
    /\ (out # <<>> /\ out[1] = Ord("-"))
         <=> (/\ kpMode = "signed-decimal"
              /\ KeptChars(kpValue) # <<>>
              /\ KeptChars(kpValue)[1] = Ord("-"))

\* "1-2" was normalized in signed mode: the minus is dropped, not moved.
C11_Witness ==
  /\ kpStage = "once"
  /\ kpMode = "signed-decimal"
  /\ kpValue = Str(<<"1", "-", "2">>)
  /\ kpOut = Value(Str(<<"1", "2">>))

\* C12: the sign key leaves any buffer as it is in unsigned mode; in signed
\* mode it turns the empty buffer into "-", removes a leading "-", and
\* otherwise puts a "-" in front, the other characters staying in place.
C12_ToggleSign ==
  (kpStage = "appended" /\ kpKey = PlusMinus) =>
    kpOut = Value(IF kpMode = "unsigned-decimal" THEN kpValue
                  ELSE IF kpValue = <<>> THEN <<Ord("-")>>
                  ELSE IF kpValue[1] = Ord("-") THEN Tail(kpValue)
                  ELSE <<Ord("-")>> \o kpValue)

\* The sign key was applied to "-1.2" in signed mode.
C12_Witness ==
  /\ kpStage = "appended"
  /\ kpKey = PlusMinus
  /\ kpMode = "signed-decimal"
  /\ kpValue = Str(<<"-", "1", ".", "2">>)
  /\ kpOut = Value(Str(<<"1", ".", "2">>))

\* C13: the point key turns the empty buffer into "0.", leaves a buffer
\* holding a "." as it is, and otherwise appends a "."; and no buffer handed
\* to onChange after a key press holds two points.
C13_DecimalPoint ==
  /\ (kpStage = "appended" /\ kpKey = Dot) =>
       kpOut = Value(IF kpValue = <<>> THEN Str(<<"0", ".">>)
                     ELSE IF CountOf(kpValue, Ord(".")) > 0 THEN kpValue
                     ELSE kpValue \o <<Ord(".")>>)
  /\ kpStage = "typed" => CountOf(kpValue, Ord(".")) <= 1

\* The point key was pressed on the buffer "1.2" and left it as it was.
C13_Witness ==
  /\ kpStage = "typed"
  /\ kpKey = Dot
  /\ kpValue = Str(<<"1", ".", "2">>)
  /\ kpOut = Value(kpValue)

\* s without its last character.
WithoutLast(s) == IF s = <<>> THEN <<>> ELSE SubSeq(s, 1, Len(s) - 1)

\* C14: backspace after appending a digit gives the buffer back; pressed on
\* a valid buffer, the backspace key removes exactly the last character, and
\* leaves the empty buffer empty, so that n presses empty a buffer of length
\* n and further presses keep it empty.
C14_Backspace ==
  /\ [](  (kpStage = "erased" /\ Len(kpKey) = 1 /\ IsDigit(kpKey[1]))
            => (kpOut = Value(kpValue \o kpKey) /\ kpAgain = Value(kpValue)))
  /\ [][(kpKey' = BackspaceKey /\ kpVars' # kpVars /\ MatchesGrammar(kpValue, kpMode))
          => (kpValue' = WithoutLast(kpValue) /\ MatchesGrammar(kpValue', kpMode))]_vars

\* The digit 1 was appended to "-1." and erased again.
C14_Witness ==
  /\ kpStage = "erased"
  /\ kpKey = Str(<<"1">>)
  /\ kpValue = Str(<<"-", "1", ".">>)
  /\ kpOut = Value(Str(<<"-", "1", ".", "1">>))
  /\ kpAgain = Value(kpValue)

\* ------------------------------------------------------------------------
\* Properties of parseNumber (SpecParse)

LonePunctuation == {Str(<<"-">>), Str(<<".">>), Str(<<"-", ".">>)}

\* C15: parseNumber gives null exactly for the empty and the whitespace-only
\* strings; "nan" exactly for the other strings that are "-", "." or "-."
\* once trimmed or do not read as a finite number; and otherwise the number
\* read with the comma as the decimal point, "3,5" giving 3.5.
C15_ThreeWay ==
  pnStage = "parsed" =>
    LET blank == \A i \in 1..Len(pnInput) : IsWhiteSpace(pnInput[i])
        t     == Trim(pnInput)
        n     == Number(CommasToDots(t))
    IN  /\ pnResult.kind \in {"null", "nan", "num"}
        /\ pnResult = NumNull <=> blank
        /\ pnResult = NaN <=> (~blank /\ (t \in LonePunctuation \/ n.kind # "num"))
        /\ pnResult.kind = "num" => pnResult = n
        /\ pnInput = Str(<<"3", ",", "5">>) => pnResult = Num(35, 1)
        /\ pnInput = Str(<<"-">>) => pnResult = NaN

\* "3,5" was parsed to 3.5.
C15_Witness ==
  /\ pnStage = "parsed"
  /\ pnInput = Str(<<"3", ",", "5">>)
  /\ pnResult = Num(35, 1)

\* ------------------------------------------------------------------------
\* Properties of onSave (SpecSave)

TemperatureAlert == Alert("Validation", "Temperature is required and must be a number.")

HumidityAlert == Alert("Validation", "Humidity must be a number.")

\* C16 as stated: a save with a malformed temperature ends otherwise than
\* the save of the same form with an empty temperature.
C16_DistinctAsStated ==
  (lastOp = "save" /\ parseNumber(tempC) = NaN)
    => saveAlert # Validation(<<>>, humidity, status, note, photoUri)

\* C16: a save with an empty and a save with a malformed temperature show
\* one and the same alert; for the humidity the two differ: a malformed one
\* is refused with an alert of its own, an empty one is not.
C16_ValidationOutcome ==
  lastOp = "save" =>
    /\ parseNumber(tempC).kind \in {"null", "nan"} => saveAlert = TemperatureAlert
    /\ (parseNumber(tempC).kind = "num" /\ parseNumber(humidity) = NaN)
         => saveAlert = HumidityAlert
    /\ (parseNumber(tempC).kind = "num" /\ parseNumber(humidity) = NumNull)
         => saveAlert \notin {TemperatureAlert, HumidityAlert}

\* A form with the temperature "-" was saved.
C16_Witness ==
  /\ lastOp = "save"
  /\ tempC = Str(<<"-">>)
  /\ saveAlert = TemperatureAlert

\* ------------------------------------------------------------------------
\* Properties of the QR codec, continued (SpecQr)

\* s is made of ten or more letters, digits, "_" and "-".
IsTenOrMoreIdChars(s) ==
  /\ Len(s) >= 10
  /\ \A i \in 1..Len(s) :
       \/ s[i] \in Ord("a")..Ord("z")
       \/ s[i] \in Ord("A")..Ord("Z")
       \/ s[i] \in Ord("0")..Ord("9")
       \/ s[i] \in {Ord("_"), Ord("-")}

\* C17: for a scanned text whose trimmed form does not start with the
\* prefix in its exact case, parseChillerIdFromQr returns the trimmed text
\* if it is ten or more letters, digits, "_" and "-", and none otherwise.
C17_RawFallback ==
  (qrStage = "scanned" /\ ~StartsWith(Trim(qrPayload.val), QR_PREFIX))
    => qrResult = (IF IsTenOrMoreIdChars(Trim(qrPayload.val))
                   THEN Value(Trim(qrPayload.val)) ELSE Null)

\* A bare token of ten characters, scanned with a space after it, came back
\* trimmed.
C17_Witness ==
  /\ qrStage = "scanned"
  /\ qrPayload = Value(TokenStem \o Str(<<"z", " ">>))
  /\ qrResult = Value(TokenStem \o Str(<<"z">>))

\* A-Z a-z 0-9 - _ . ! ~ * ' ( )
IsUnreserved(c) ==
  \/ c \in Ord("a")..Ord("z")
  \/ c \in Ord("A")..Ord("Z")
  \/ c \in Ord("0")..Ord("9")
  \/ c \in {45, 95, 46, 33, 126, 42, 39, 40, 41}

\* C18: the prefix followed by a non-empty text s of unreserved characters
\* parses to s, however short s is.
C18_PrefixPrecedence ==
  LET v == qrPayload.val
      s == SubSeq(v, Len(QR_PREFIX) + 1, Len(v))
  IN  (/\ qrStage = "scanned"
       /\ StartsWith(v, QR_PREFIX)
       /\ s # <<>>
       /\ \A i \in 1..Len(s) : IsUnreserved(s[i]))
        => qrResult = Value(s)

\* The prefix followed by the single character z was scanned.
C18_Witness ==
  /\ qrStage = "scanned"
  /\ qrPayload = Value(QR_PREFIX \o Str(<<"z">>))
  /\ qrResult = Value(Str(<<"z">>))

\* C19: the result of parseChillerIdFromQr is none or a non-empty string
\* that neither starts nor ends with white space; the bare prefix and the
\* prefix followed by white space only, percent-encoded or not, give none.
C19_NoPaddedId ==
  qrStage \in {"scanned", "roundtrip"} =>
    /\ \/ qrResult = Null
       \/ /\ qrResult.kind = "value"
          /\ qrResult.val # <<>>
          /\ ~IsWhiteSpace(qrResult.val[1])
          /\ ~IsWhiteSpace(qrResult.val[Len(qrResult.val)])
    /\ qrPayload.val \in {QR_PREFIX, QR_PREFIX \o Str(<<" ">>),
                          QR_PREFIX \o Str(<<"%", "2", "0">>),
                          QR_PREFIX \o Str(<<"%", "0", "A">>)}
         => qrResult = Null

\* C20: the chiller QR screen and the QR detail screen give one payload for
\* one chiller: the prefix followed by the percent-encoding of its
\* identifier.
C20_SinglePayload ==
  qrStage = "both" =>
    /\ qrDetail = qrPayload
    /\ qrPayload.kind = "value"
    /\ encodeURIComponent(qrId).kind = "value"
    /\ qrPayload.val = QR_PREFIX \o encodeURIComponent(qrId).val

\* ------------------------------------------------------------------------
\* Properties of the chiller edit screen (SpecEditSave, SpecEditLive)

\* The text of a bound field is neither empty nor a finite number.
Unparseable(s) ==
  Trim(s) # <<>> /\ Number(CommasToDots(Trim(s))).kind # "num"

\* Both texts are finite numbers, the first greater than the second.
TextAbove(a, b) ==
  /\ Trim(a) # <<>> /\ Trim(b) # <<>>
  /\ ~Unparseable(a) /\ ~Unparseable(b)
  /\ Less(Number(CommasToDots(Trim(b))), Number(CommasToDots(Trim(a))))

\* The bounds of a chiller document are numbers or null, in order if both
\* are numbers.
RangeOrdered(d) ==
  /\ d.minTemp.kind \in {"num", "null"}
  /\ d.maxTemp.kind \in {"num", "null"}
  /\ (d.minTemp.kind = "num" /\ d.maxTemp.kind = "num") => ~Less(d.maxTemp, d.minTemp)

\* C21: every chiller document the edit screen writes or is about to write
\* holds bounds that are numbers or null, with minTemp <= maxTemp if both
\* are numbers; and while a bound field is unparseable or min is above max
\* no step starts a write.
C21_RangeOrdered ==
  /\ [](/\ \A i \in 1..Len(edDocs) : RangeOrdered(edDocs[i])
        /\ \A i \in 1..Len(edWrites) : RangeOrdered(edWrites[i]))
  /\ [][(Unparseable(edMin) \/ Unparseable(edMax) \/ TextAbove(edMin, edMax))
          => (Len(edWrites') <= Len(edWrites) /\ Len(edDocs') = Len(edDocs) + Len(edWrites) - Len(edWrites'))]_vars

\* A chiller with the range -5 to 2.5 was written.
C21_Witness ==
  /\ Len(edDocs) = 1
  /\ edDocs[1].minTemp = Num(-5, 0)
  /\ edDocs[1].maxTemp = Num(25, 1)

\* C22: a barcode event whose text does not decode to a chiller identifier
\* opens the Invalid QR alert and starts no navigation, and closing the
\* Invalid QR alert with Scan again sets scanned to false.
C22_InvalidAlert ==
  /\ [][(scLast'.tick # scLast.tick
           /\ parseChillerIdFromQr(Trim(scLast'.text)).kind # "value")
          => /\ scAlerts' = Append(scAlerts, [kind |-> "invalid", id |-> <<>>])
             /\ scTimers' = scTimers
             /\ scRoute' = scRoute]_vars
  /\ [][(scAlerts # <<>> /\ scAlerts' = Tail(scAlerts) /\ scRoute = NoRoute
           /\ Head(scAlerts).kind = "invalid")
          => ~scScanned']_vars

\* C25: at most one alert of onScan is open at any time.
C25_OnePending == Len(scAlerts) <= 1

HasDigit(s) == \E i \in 1..Len(s) : IsDigit(s[i])

\* C23: of the buffers the signed keypad reaches from the empty buffer,
\* parseNumber reports "-", "." and "-." as invalid and no other; a buffer
\* with a digit parses to a number, and the empty buffer to null.
C23_KeypadBuffers ==
  /\ [](kpStage = "read" =>
         /\ pnResult = NaN <=> pnInput \in {Str(<<"-">>), Str(<<".">>), Str(<<"-", ".">>)}
         /\ HasDigit(pnInput) => pnResult.kind = "num"
         /\ pnInput = <<>> <=> pnResult = NumNull)
  /\ [][kpStage' = "read" /\ kpStage # "read" => pnInput' = kpValue]_vars

\* The sign key, the point key and the sign key again left ".", which was
\* read as invalid.
C23_Witness ==
  /\ kpStage = "read"
  /\ kpKey = PlusMinus
  /\ pnInput = Str(<<".">>)
  /\ pnResult = NaN

\* C24: every tempLogs document with status damaged, and a lastReading with
\* status damaged, has a photoUrl.
C24_DamagedHasPhoto ==
  /\ \A i \in 1..Len(tempLogs) :
       tempLogs[i].status = "damaged" => tempLogs[i].photoUrl # "null"
  /\ (lastReading.written /\ lastReading.status = "damaged")
       => lastReading.photoUrl # "null"

\* C26: at most one call of onSave is past its validation and not yet
\* ended, and while saving or photoUploading is set no step starts another.
C26_OneSaveInFlight ==
  /\ [](Len(saves) <= 1)
  /\ [][(saving \/ photoUploading) => Len(saves') <= Len(saves)]_vars

\* C27: once no call of onSave is running, the last tempLogs document is
\* the chiller's lastReading; and while the alert of a failed save is
\* shown, the one call made has left no tempLogs document.
C27_AllOrNothing ==
  /\ (saves = <<>> /\ tempLogs # <<>>) => lastReading = tempLogs[Len(tempLogs)]
  /\ (saves = <<>> /\ saveAlert.title = "Error") => tempLogs = <<>>

\* C28: once an auth-state-change event was delivered, whenever loading is
\* true it becomes false later, given that the calls to Firestore settle.
C28_LoadingEnds == (auEvents > 0 /\ auLoading) ~> ~auLoading

\* The handler's refreshProfile failed, and loading is false.
C28_Witness ==
  /\ auEvents = 1
  /\ auCalls = 0
  /\ auUser = "u1"
  /\ auRuns = <<>>
  /\ auProfile = NoProfile
  /\ ~auLoading

\* C29: a profile that is set is the profile of the user that is set.
C29_ProfileOfUser ==
  auProfile # NoProfile => (auUser # NoUser /\ auProfile.uid = auUser)

\* C30: every listener registered by the chiller edit screen belongs to the
\* mounted screen's chillerId and user, and only such a listener sets the
\* form fields.
C30_ListenerCleanedUp ==
  /\ [](\A l \in edListeners :
          edMounted /\ l = [id |-> edChillerId, uid |-> edUser])
  /\ [][edApplied' # edApplied
          => edApplied' = [id |-> edChillerId, uid |-> edUser]]_vars

=============================================================================
